---- MODULE Spec2Model ----
(***************************************************************************)
(* Tag reconciliation engine of update-tags-action (tags.ts, main.ts).     *)
(*                                                                         *)
(* A string is a sequence of tokens; the token ":" is the colon character  *)
(* and the token " " is whitespace, so that split(':'), join(':') and      *)
(* trim() are computed and not assumed.  The JavaScript value undefined is *)
(* the reserved string UNDEF.                                              *)
(***************************************************************************)
EXTENDS Integers, Sequences, FiniteSets, TLC

\* ------------------------------------------------------------------------
\* Bounds of the model
\* ------------------------------------------------------------------------
MaxTags == 2      \* longest tag-spec list handed to the planner
MaxFaults == 1    \* provider failures injected in one behaviour
MaxRuns == 2      \* successive runs on the same remote

\* ------------------------------------------------------------------------
\* Strings
\* ------------------------------------------------------------------------
COLON == ":"
SPACE == " "
EMPTY == <<>>
UNDEF == <<"<undefined>">>
PROTOVAL == <<"<Object.prototype member>">>

Range(s) == {s[i] : i \in 1..Len(s)}

\* JavaScript truthiness of a string-or-undefined value
Truthy(x) == x # UNDEF /\ x # EMPTY

\* x || y
OrElse(x, y) == IF Truthy(x) THEN x ELSE y

RECURSIVE TrimLeft(_)
TrimLeft(s) == IF s # EMPTY /\ Head(s) = SPACE THEN TrimLeft(Tail(s)) ELSE s

RECURSIVE TrimRight(_)
TrimRight(s) ==
  IF s # EMPTY /\ s[Len(s)] = SPACE THEN TrimRight(SubSeq(s, 1, Len(s) - 1)) ELSE s

Trim(s) == TrimRight(TrimLeft(s))

\* tag.split(':') : the list of the pieces between colons ("" gives [""])
RECURSIVE Split(_)
Split(s) ==
  IF COLON \notin Range(s) THEN <<s>>
  ELSE LET i == CHOOSE k \in 1..Len(s) :
                  s[k] = COLON /\ \A j \in 1..(k - 1) : s[j] # COLON
       IN <<SubSeq(s, 1, i - 1)>> \o Split(SubSeq(s, i + 1, Len(s)))

\* parts.join(':')
RECURSIVE Join(_)
Join(parts) ==
  IF parts = <<>> THEN EMPTY
  ELSE IF Len(parts) = 1 THEN parts[1]
  ELSE parts[1] \o <<COLON>> \o Join(Tail(parts))

\* parts[i], undefined past the end
At(parts, i) == IF i <= Len(parts) THEN parts[i] ELSE UNDEF

\* parts.slice(2)
Slice2(parts) == SubSeq(parts, 3, Len(parts))

\* ------------------------------------------------------------------------
\* Plain JavaScript objects used as maps (Record<string, string> = {})
\* ------------------------------------------------------------------------
ProtoProps == { <<"constructor">>, <<"toString">>, <<"valueOf">>,
                <<"hasOwnProperty">>, <<"__proto__">> }

IndexValue == ("0" :> 0) @@ ("1" :> 1) @@ ("2" :> 2) @@ ("3" :> 3)

IsIndexKey(k) == Len(k) = 1 /\ k[1] \in DOMAIN IndexValue

EmptyObj == [keys |-> <<>>, vals |-> <<>>]

HasOwn(obj, k) == k \in Range(obj.keys)

OwnGet(obj, k) == obj.vals[CHOOSE i \in 1..Len(obj.keys) : obj.keys[i] = k]

\* obj[k] : own property, else inherited from Object.prototype, else undefined
ObjGet(obj, k) ==
  IF HasOwn(obj, k) THEN OwnGet(obj, k)
  ELSE IF k \in ProtoProps THEN PROTOVAL
  ELSE UNDEF

\* a list of entries in place of a map: every assignment adds an entry
ObjSet_AlwaysAppends(obj, k, v) ==
  [keys |-> Append(obj.keys, k), vals |-> Append(obj.vals, v)]

\* obj[k] = v  (assigning a string to __proto__ is ignored)
ObjSet(obj, k, v) ==
  IF k = <<"__proto__">> THEN obj
  ELSE IF HasOwn(obj, k)
    THEN [obj EXCEPT !.vals =
            [i \in 1..Len(obj.keys) |-> IF obj.keys[i] = k THEN v ELSE obj.vals[i]]]
    ELSE [keys |-> Append(obj.keys, k), vals |-> Append(obj.vals, v)]

RECURSIVE SortIndexKeys(_)
SortIndexKeys(ks) ==
  IF ks = <<>> THEN <<>>
  ELSE LET m == CHOOSE i \in 1..Len(ks) :
                  \A j \in 1..Len(ks) : IndexValue[ks[i][1]] <= IndexValue[ks[j][1]]
           rest == [i \in 1..(Len(ks) - 1) |-> IF i < m THEN ks[i] ELSE ks[i + 1]]
       IN <<ks[m]>> \o SortIndexKeys(rest)

\* Object.keys(obj) : integer-like keys ascending, then the others in
\* insertion order
ObjKeys(obj) ==
  LET IsIdx(k) == IsIndexKey(k)
      NotIdx(k) == ~IsIndexKey(k)
  IN SortIndexKeys(SelectSeq(obj.keys, IsIdx)) \o SelectSeq(obj.keys, NotIdx)

\* an array in place of the Set
SetAdd_NoDedup(s, x) == Append(s, x)

\* Set.add on an insertion-ordered Set
SetAdd(s, x) == IF x \in Range(s) THEN s ELSE Append(s, x)

\* ------------------------------------------------------------------------
\* Errors (the message handed to core.setFailed)
\* ------------------------------------------------------------------------
NoError == [kind |-> "none"]

\* `Invalid tag: '${tag}'`
InvalidTag(tag) == [kind |-> "InvalidTag", tag |-> tag]

\* "Missing ref: provide 'ref' input or specify per-tag ref"
MissingRef == [kind |-> "MissingRef"]

\* `Duplicate tag '${tagName}' with different refs: '${a}' and '${b}'`
DuplicateTag(name, a, b) ==
  [kind |-> "DuplicateTag", name |-> name, first |-> a, second |-> b]

\* `Failed to resolve ref '${ref}' to a SHA: ...`
RefResolutionFailed(ref) == [kind |-> "RefResolutionFailed", ref |-> ref]

\* `Failed to check if tag '${tagName}' exists: ...`
TagCheckFailed(name) == [kind |-> "TagCheckFailed", name |-> name]

\* `Tag '${tagName}' already exists.`
TagAlreadyExists(name) == [kind |-> "TagAlreadyExists", name |-> name]

\* `Action failed with error: ...`
ActionFailed == [kind |-> "ActionFailed"]

\* `Unknown operation type: ${operation.operation}`
UnknownOperation(kind) == [kind |-> "UnknownOperation", operation |-> kind]

\* ------------------------------------------------------------------------
\* planTagOperations, first loop: parsing of the tag-spec list
\* ------------------------------------------------------------------------
ParseStart ==
  [tagRefs |-> EmptyObj, tagAnnotations |-> EmptyObj, uniqueRefs |-> <<>>,
   error |-> NoError]

\* a loop without the duplicate check: the last ref of a name wins
ParseEntry_LastRefWins(acc, tag, defaultRef) ==
  LET parts == Split(tag)
      tagName == Trim(OrElse(At(parts, 1), EMPTY))
      tagRef == Trim(OrElse(At(parts, 2), EMPTY))
      tagAnnotation == Trim(Join(Slice2(parts)))
      ref == OrElse(tagRef, defaultRef)
  IN IF ~Truthy(tagName)
       THEN IF Truthy(tagRef) \/ Truthy(tagAnnotation)
              THEN [acc EXCEPT !.error = InvalidTag(tag)]
              ELSE acc
     ELSE IF ~Truthy(ref)
       THEN [acc EXCEPT !.error = MissingRef]
     ELSE [tagRefs |-> ObjSet(acc.tagRefs, tagName, ref),
           tagAnnotations |->
             IF Truthy(tagAnnotation)
               THEN ObjSet(acc.tagAnnotations, tagName, tagAnnotation)
               ELSE acc.tagAnnotations,
           uniqueRefs |-> SetAdd(acc.uniqueRefs, ref),
           error |-> NoError]

\* a loop that takes every repeated name for a conflict
ParseEntry_RejectsRepeats(acc, tag, defaultRef) ==
  LET parts == Split(tag)
      tagName == Trim(OrElse(At(parts, 1), EMPTY))
      tagRef == Trim(OrElse(At(parts, 2), EMPTY))
      tagAnnotation == Trim(Join(Slice2(parts)))
      ref == OrElse(tagRef, defaultRef)
      seen == ObjGet(acc.tagRefs, tagName)
  IN IF ~Truthy(tagName)
       THEN IF Truthy(tagRef) \/ Truthy(tagAnnotation)
              THEN [acc EXCEPT !.error = InvalidTag(tag)]
              ELSE acc
     ELSE IF ~Truthy(ref)
       THEN [acc EXCEPT !.error = MissingRef]
     ELSE IF Truthy(seen)
       THEN [acc EXCEPT !.error = DuplicateTag(tagName, seen, ref)]
     ELSE [tagRefs |-> ObjSet(acc.tagRefs, tagName, ref),
           tagAnnotations |->
             IF Truthy(tagAnnotation)
               THEN ObjSet(acc.tagAnnotations, tagName, tagAnnotation)
               ELSE acc.tagAnnotations,
           uniqueRefs |-> SetAdd(acc.uniqueRefs, ref),
           error |-> NoError]

\* a loop that takes a blank entry for an invalid one
ParseEntry_RejectsBlank(acc, tag, defaultRef) ==
  LET parts == Split(tag)
      tagName == Trim(OrElse(At(parts, 1), EMPTY))
      tagRef == Trim(OrElse(At(parts, 2), EMPTY))
      tagAnnotation == Trim(Join(Slice2(parts)))
      ref == OrElse(tagRef, defaultRef)
      seen == ObjGet(acc.tagRefs, tagName)
  IN IF ~Truthy(tagName)
       THEN [acc EXCEPT !.error = InvalidTag(tag)]
     ELSE IF ~Truthy(ref)
       THEN [acc EXCEPT !.error = MissingRef]
     ELSE IF Truthy(seen) /\ seen # ref
       THEN [acc EXCEPT !.error = DuplicateTag(tagName, seen, ref)]
     ELSE [tagRefs |-> ObjSet(acc.tagRefs, tagName, ref),
           tagAnnotations |->
             IF Truthy(tagAnnotation)
               THEN ObjSet(acc.tagAnnotations, tagName, tagAnnotation)
               ELSE acc.tagAnnotations,
           uniqueRefs |-> SetAdd(acc.uniqueRefs, ref),
           error |-> NoError]

\* a loop that drops every entry without a name
ParseEntry_DropsUnnamed(acc, tag, defaultRef) ==
  LET parts == Split(tag)
      tagName == Trim(OrElse(At(parts, 1), EMPTY))
      tagRef == Trim(OrElse(At(parts, 2), EMPTY))
      tagAnnotation == Trim(Join(Slice2(parts)))
      ref == OrElse(tagRef, defaultRef)
      seen == ObjGet(acc.tagRefs, tagName)
  IN IF ~Truthy(tagName)
       THEN acc
     ELSE IF ~Truthy(ref)
       THEN [acc EXCEPT !.error = MissingRef]
     ELSE IF Truthy(seen) /\ seen # ref
       THEN [acc EXCEPT !.error = DuplicateTag(tagName, seen, ref)]
     ELSE [tagRefs |-> ObjSet(acc.tagRefs, tagName, ref),
           tagAnnotations |->
             IF Truthy(tagAnnotation)
               THEN ObjSet(acc.tagAnnotations, tagName, tagAnnotation)
               ELSE acc.tagAnnotations,
           uniqueRefs |-> SetAdd(acc.uniqueRefs, ref),
           error |-> NoError]

\* a loop that knows no default ref
ParseEntry_ExplicitRefOnly(acc, tag, defaultRef) ==
  LET parts == Split(tag)
      tagName == Trim(OrElse(At(parts, 1), EMPTY))
      tagRef == Trim(OrElse(At(parts, 2), EMPTY))
      tagAnnotation == Trim(Join(Slice2(parts)))
      ref == tagRef
      seen == ObjGet(acc.tagRefs, tagName)
  IN IF ~Truthy(tagName)
       THEN IF Truthy(tagRef) \/ Truthy(tagAnnotation)
              THEN [acc EXCEPT !.error = InvalidTag(tag)]
              ELSE acc
     ELSE IF ~Truthy(ref)
       THEN [acc EXCEPT !.error = MissingRef]
     ELSE IF Truthy(seen) /\ seen # ref
       THEN [acc EXCEPT !.error = DuplicateTag(tagName, seen, ref)]
     ELSE [tagRefs |-> ObjSet(acc.tagRefs, tagName, ref),
           tagAnnotations |->
             IF Truthy(tagAnnotation)
               THEN ObjSet(acc.tagAnnotations, tagName, tagAnnotation)
               ELSE acc.tagAnnotations,
           uniqueRefs |-> SetAdd(acc.uniqueRefs, ref),
           error |-> NoError]

\* a loop in which every entry of a tag sets its annotation, an entry
\* without one too
ParseEntry_LastEntrySetsAnnotation(acc, tag, defaultRef) ==
  LET parts == Split(tag)
      tagName == Trim(OrElse(At(parts, 1), EMPTY))
      tagRef == Trim(OrElse(At(parts, 2), EMPTY))
      tagAnnotation == Trim(Join(Slice2(parts)))
      ref == OrElse(tagRef, defaultRef)
      seen == ObjGet(acc.tagRefs, tagName)
  IN IF ~Truthy(tagName)
       THEN IF Truthy(tagRef) \/ Truthy(tagAnnotation)
              THEN [acc EXCEPT !.error = InvalidTag(tag)]
              ELSE acc
     ELSE IF ~Truthy(ref)
       THEN [acc EXCEPT !.error = MissingRef]
     ELSE IF Truthy(seen) /\ seen # ref
       THEN [acc EXCEPT !.error = DuplicateTag(tagName, seen, ref)]
     ELSE [tagRefs |-> ObjSet(acc.tagRefs, tagName, ref),
           tagAnnotations |-> ObjSet(acc.tagAnnotations, tagName, tagAnnotation),
           uniqueRefs |-> SetAdd(acc.uniqueRefs, ref),
           error |-> NoError]

\* the loop of the revision without annotations: a third part is an error
ParseEntry_RejectsManyColons(acc, tag, defaultRef) ==
  LET parts == Split(tag)
      tagName == Trim(OrElse(At(parts, 1), EMPTY))
      tagRef == Trim(OrElse(At(parts, 2), EMPTY))
      ref == OrElse(tagRef, defaultRef)
      seen == ObjGet(acc.tagRefs, tagName)
  IN IF Len(parts) > 2
       THEN [acc EXCEPT !.error = InvalidTag(tag)]
     ELSE IF ~Truthy(tagName)
       THEN IF Truthy(tagRef)
              THEN [acc EXCEPT !.error = InvalidTag(tag)]
              ELSE acc
     ELSE IF ~Truthy(ref)
       THEN [acc EXCEPT !.error = MissingRef]
     ELSE IF Truthy(seen) /\ seen # ref
       THEN [acc EXCEPT !.error = DuplicateTag(tagName, seen, ref)]
     ELSE [tagRefs |-> ObjSet(acc.tagRefs, tagName, ref),
           tagAnnotations |-> acc.tagAnnotations,
           uniqueRefs |-> SetAdd(acc.uniqueRefs, ref),
           error |-> NoError]

\* a loop that takes the third part alone for the annotation
ParseEntry_AnnotationIsThirdPart(acc, tag, defaultRef) ==
  LET parts == Split(tag)
      tagName == Trim(OrElse(At(parts, 1), EMPTY))
      tagRef == Trim(OrElse(At(parts, 2), EMPTY))
      tagAnnotation == Trim(OrElse(At(parts, 3), EMPTY))
      ref == OrElse(tagRef, defaultRef)
      seen == ObjGet(acc.tagRefs, tagName)
  IN IF ~Truthy(tagName)
       THEN IF Truthy(tagRef) \/ Truthy(tagAnnotation)
              THEN [acc EXCEPT !.error = InvalidTag(tag)]
              ELSE acc
     ELSE IF ~Truthy(ref)
       THEN [acc EXCEPT !.error = MissingRef]
     ELSE IF Truthy(seen) /\ seen # ref
       THEN [acc EXCEPT !.error = DuplicateTag(tagName, seen, ref)]
     ELSE [tagRefs |-> ObjSet(acc.tagRefs, tagName, ref),
           tagAnnotations |->
             IF Truthy(tagAnnotation)
               THEN ObjSet(acc.tagAnnotations, tagName, tagAnnotation)
               ELSE acc.tagAnnotations,
           uniqueRefs |-> SetAdd(acc.uniqueRefs, ref),
           error |-> NoError]

\* one iteration of `for (const tag of inputs.tags)`
ParseEntry(acc, tag, defaultRef) ==
  LET parts == Split(tag)
      tagName == Trim(OrElse(At(parts, 1), EMPTY))
      tagRef == Trim(OrElse(At(parts, 2), EMPTY))
      tagAnnotation == Trim(Join(Slice2(parts)))
      ref == OrElse(tagRef, defaultRef)
      seen == ObjGet(acc.tagRefs, tagName)
  IN IF ~Truthy(tagName)
       THEN IF Truthy(tagRef) \/ Truthy(tagAnnotation)
              THEN [acc EXCEPT !.error = InvalidTag(tag)]
              ELSE acc
     ELSE IF ~Truthy(ref)
       THEN [acc EXCEPT !.error = MissingRef]
     ELSE IF Truthy(seen) /\ seen # ref
       THEN [acc EXCEPT !.error = DuplicateTag(tagName, seen, ref)]
     ELSE [tagRefs |-> ObjSet(acc.tagRefs, tagName, ref),
           tagAnnotations |->
             IF Truthy(tagAnnotation)
               THEN ObjSet(acc.tagAnnotations, tagName, tagAnnotation)
               ELSE acc.tagAnnotations,
           uniqueRefs |-> SetAdd(acc.uniqueRefs, ref),
           error |-> NoError]

\* the whole loop; a throw leaves the loop at once
RECURSIVE ParseLoop(_, _, _)
ParseLoop(acc, tags, defaultRef) ==
  IF tags = <<>> \/ acc.error # NoError THEN acc
  ELSE ParseLoop(ParseEntry(acc, Head(tags), defaultRef), Tail(tags), defaultRef)

ParseTags(tags, defaultRef) == ParseLoop(ParseStart, tags, defaultRef)

\* ------------------------------------------------------------------------
\* getInputs and deriveTags: from the action's inputs to Inputs.tags
\* ------------------------------------------------------------------------
COMMA == ","
NEWLINE == "\n"

\* `Invalid semver: empty string` and `Invalid semver: '${input}'`
InvalidSemver(input) == [kind |-> "InvalidSemver", input |-> input]

\* "No tags specified. Provide 'tags' input, 'derive_from' input, or both."
NoTagsSpecified == [kind |-> "NoTagsSpecified"]

\* `Invalid value for 'when_exists': '${input}'. Valid values are ...`
InvalidWhenExists(input) == [kind |-> "InvalidWhenExists", input |-> input]

\* the pieces of s between the occurrences of the token sep
RECURSIVE SplitOn(_, _)
SplitOn(s, sep) ==
  IF sep \notin Range(s) THEN <<s>>
  ELSE LET i == CHOOSE k \in 1..Len(s) :
                  s[k] = sep /\ \A j \in 1..(k - 1) : s[j] # sep
       IN <<SubSeq(s, 1, i - 1)>> \o SplitOn(SubSeq(s, i + 1, Len(s)), sep)

RECURSIVE Flat(_)
Flat(lists) == IF lists = <<>> THEN <<>> ELSE Head(lists) \o Flat(Tail(lists))

\* csv-parse/sync parse(text, {delimiter: ',', trim: true,
\* relax_column_count: true}).flat(), on text without quotes: one record per
\* line (none for the empty rest after the last line break), one field per
\* comma, every field trimmed
CsvParse(text) ==
  LET lines == SplitOn(text, NEWLINE)
      records == IF lines[Len(lines)] = EMPTY
                   THEN SubSeq(lines, 1, Len(lines) - 1) ELSE lines
      Fields(line) == LET fs == SplitOn(line, COMMA)
                      IN [i \in 1..Len(fs) |-> Trim(fs[i])]
  IN Flat([i \in 1..Len(records) |-> Fields(records[i])])

\* the numeric identifiers of the versions the model uses
NumericIds == { "0", "1", "2", "3" }

\* the tokens a prerelease or build identifier may be
Identifiers == NumericIds \cup { "rc", "beta" }

\* dot-separated identifiers, none of them empty
IsDotted(s) ==
  /\ Len(s) % 2 = 1
  /\ \A i \in 1..Len(s) : IF i % 2 = 1 THEN s[i] \in Identifiers ELSE s[i] = "."

\* the SemVer object of `MAJOR.MINOR.PATCH(-PRERELEASE)?` followed by the
\* build metadata, or null (valid = FALSE)
SemverRecord(core, build, hasBuild) ==
  IF /\ Len(core) >= 5
     /\ core[1] \in NumericIds /\ core[2] = "."
     /\ core[3] \in NumericIds /\ core[4] = "."
     /\ core[5] \in NumericIds
     /\ Len(core) > 5 => (core[6] = "-" /\ IsDotted(SubSeq(core, 7, Len(core))))
     /\ hasBuild => IsDotted(build)
    THEN [valid |-> TRUE, major |-> <<core[1]>>, minor |-> <<core[3]>>,
          patch |-> <<core[5]>>, prerelease |-> SubSeq(core, 7, Len(core)),
          build |-> build, version |-> core]
    ELSE [valid |-> FALSE]

\* semver.parse(versionStr): the SemVer object, or null when versionStr is
\* not `v?MAJOR.MINOR.PATCH(-PRERELEASE)?(+BUILD)?`
SemverParse(versionStr) ==
  LET s == Trim(versionStr)
      pieces == SplitOn(IF s # EMPTY /\ Head(s) = "v" THEN Tail(s) ELSE s, "+")
  IN IF Len(pieces) > 2 THEN [valid |-> FALSE]
     ELSE SemverRecord(pieces[1], IF Len(pieces) = 2 THEN pieces[2] ELSE EMPTY,
                       Len(pieces) = 2)

\* the SemverContext parseSemver returns, or the error it throws, once the
\* prefix is taken off and semver.parse has answered
SemverContextOf(input, prefix, parsed) ==
  IF ~parsed.valid
    THEN [error |-> InvalidSemver(input)]
    ELSE [error |-> NoError, prefix |-> prefix, major |-> parsed.major,
          minor |-> parsed.minor, patch |-> parsed.patch,
          prerelease |-> parsed.prerelease, build |-> parsed.build,
          version |-> parsed.version]

\* parseSemver: the SemverContext, or the error thrown
parseSemver(input) ==
  LET trimmed == Trim(input)
  IN IF ~Truthy(trimmed)
       THEN [error |-> InvalidSemver(<<"empty string">>)]
     ELSE IF trimmed[1] = "v" \/ trimmed[1] = "V"
       THEN SemverContextOf(input, <<trimmed[1]>>, SemverParse(Tail(trimmed)))
     ELSE SemverContextOf(input, EMPTY, SemverParse(trimmed))

\* the placeholders of a template and the field of the context each renders
Placeholders ==
  [t \in { "{{prefix}}", "{{major}}", "{{minor}}", "{{patch}}", "{{prerelease}}",
           "{{build}}", "{{version}}" } |->
     CASE t = "{{prefix}}" -> "prefix" [] t = "{{major}}" -> "major"
       [] t = "{{minor}}" -> "minor" [] t = "{{patch}}" -> "patch"
       [] t = "{{prerelease}}" -> "prerelease" [] t = "{{build}}" -> "build"
       [] OTHER -> "version"]

\* renderTemplate on a template without blocks: every placeholder is replaced
\* by its value, the text between them is kept (noEscape)
RECURSIVE renderTemplate(_, _)
renderTemplate(template, ctx) ==
  IF template = <<>> THEN EMPTY
  ELSE (IF Head(template) \in DOMAIN Placeholders
          THEN ctx[Placeholders[Head(template)]]
          ELSE <<Head(template)>>)
       \o renderTemplate(Tail(template), ctx)

\* a deriveTags that returns every field of the rendered template
DerivedWith_Unfiltered(ctx, template) ==
  CsvParse(renderTemplate(template, ctx))

\* deriveTags once parseSemver has returned ctx: render, parse as CSV, drop
\* the empty tags and the tags that are the prefix alone
DerivedWith(ctx, template) ==
  LET Keep(tag) == Len(tag) > 0 /\ tag # ctx.prefix
  IN SelectSeq(CsvParse(renderTemplate(template, ctx)), Keep)

\* a deriveTags that derives nothing from a version it cannot parse
deriveTags_InvalidDerivesNothing(deriveFrom, template) ==
  LET ctx == parseSemver(deriveFrom)
  IN IF ctx.error # NoError
       THEN [error |-> NoError, tags |-> <<>>]
       ELSE [error |-> NoError, tags |-> DerivedWith(ctx, template)]

\* deriveTags: the derived tag list, or the error parseSemver throws
deriveTags(deriveFrom, template) ==
  LET ctx == parseSemver(deriveFrom)
  IN IF ctx.error # NoError
       THEN [error |-> ctx.error, tags |-> <<>>]
       ELSE [error |-> NoError, tags |-> DerivedWith(ctx, template)]

\* '{{prefix}}{{major}},{{prefix}}{{major}}.{{minor}}'
DEFAULT_DERIVE_FROM_TEMPLATE ==
  << "{{prefix}}", "{{major}}", COMMA, "{{prefix}}", "{{major}}", ".", "{{minor}}" >>

WHEN_EXISTS_MODES == { <<"update">>, <<"skip">>, <<"fail">> }

\* a getInputs that returns an empty tag list
InputsOf_AcceptsNoTags(g, whenExists, explicitTags, derived) ==
  IF derived.error # NoError
    THEN [error |-> derived.error]
  ELSE [error |-> NoError,
        inputs |-> [tags |-> explicitTags \o derived.tags, defaultRef |-> g.ref,
                    annotation |-> g.annotation, whenExists |-> whenExists[1],
                    dryRun |-> g.dryRun]]

\* the end of getInputs, once the explicit and the derived tags are known
InputsOf(g, whenExists, explicitTags, derived) ==
  IF derived.error # NoError
    THEN [error |-> derived.error]
  ELSE IF Len(explicitTags \o derived.tags) = 0
    THEN [error |-> NoTagsSpecified]
  ELSE [error |-> NoError,
        inputs |-> [tags |-> explicitTags \o derived.tags, defaultRef |-> g.ref,
                    annotation |-> g.annotation, whenExists |-> whenExists[1],
                    dryRun |-> g.dryRun]]

\* core.getInput: the value given for an input of the action (the empty
\* string when none is given), without the whitespace around it
getInput(value) == Trim(value)

\* the values core.getInput returns for the inputs given to the action
ValuesRead(w) ==
  [w EXCEPT !.tags = getInput(@), !.deriveFrom = getInput(@),
            !.deriveFromTemplate = getInput(@), !.ref = getInput(@),
            !.whenExists = getInput(@), !.annotation = getInput(@)]

\* getInputs on the values core.getInput returns: the Inputs, or the error
\* thrown
getInputs(g) ==
  IF OrElse(g.whenExists, <<"update">>) \notin WHEN_EXISTS_MODES
    THEN [error |-> InvalidWhenExists(g.whenExists)]
    ELSE InputsOf(g, OrElse(g.whenExists, <<"update">>),
                  IF Truthy(g.tags) THEN CsvParse(g.tags) ELSE <<>>,
                  IF Truthy(g.deriveFrom)
                    THEN deriveTags(g.deriveFrom,
                                    OrElse(g.deriveFromTemplate,
                                           DEFAULT_DERIVE_FROM_TEMPLATE))
                    ELSE [error |-> NoError, tags |-> <<>>])

\* ------------------------------------------------------------------------
\* The remote repository and the provider API
\* ------------------------------------------------------------------------
\* commit SHAs and tag-object SHAs (a tag object is identified by its content)
Commit(id) == [commit |-> id]

TagObject(name, message, commitSha) ==
  [tag |-> name, message |-> message, object |-> commitSha]

\* what refs/tags/<name> points at
Absent == [type |-> "none"]

Lightweight(commitSha) == [type |-> "commit", sha |-> commitSha]

Annotated(tagObject) == [type |-> "tag", sha |-> tagObject]

\* the commit-ish names the inputs use; the repository knows them all
KnownRefs == { <<"main">>, <<"dev">> }

\* repos.getCommit : the commit a known commit-ish resolves to
CommitOf(ref) == IF ref = <<"main">> THEN Commit("s1") ELSE Commit("s2")

\* ------------------------------------------------------------------------
\* compareTagState, getUpdateReasons and the planner's decision
\* ------------------------------------------------------------------------
\* ExistingTagInfo
ExistingInfo(commitSHA, isAnnotated, annotation) ==
  [commitSHA |-> commitSHA, isAnnotated |-> isAnnotated, annotation |-> annotation]

\* a comparison in which an annotated tag never matches
compareTagState_AnnotatedNeverMatches(sha, annotation, existing) ==
  [commitMatches |-> existing.commitSHA = sha,
   annotationMatches |-> existing.isAnnotated # TRUE /\ ~Truthy(annotation)]

\* a comparison that takes any two annotated tags for equally annotated
compareTagState_AnyMessageMatches(sha, annotation, existing) ==
  LET isAnnotated == existing.isAnnotated = TRUE
  IN [commitMatches |-> existing.commitSHA = sha,
      annotationMatches |->
        \/ (isAnnotated /\ Truthy(annotation))
        \/ (~isAnnotated /\ ~Truthy(annotation))]

\* a comparison of the commits only
compareTagState_CommitOnly(sha, annotation, existing) ==
  [commitMatches |-> existing.commitSHA = sha, annotationMatches |-> TRUE]

compareTagState(sha, annotation, existing) ==
  LET isAnnotated == existing.isAnnotated = TRUE
  IN [commitMatches |-> existing.commitSHA = sha,
      annotationMatches |->
        \/ (isAnnotated /\ Truthy(annotation) /\ existing.annotation = annotation)
        \/ (~isAnnotated /\ ~Truthy(annotation))]

CommitReason(sha, was) == [reason |-> "commit SHA", sha |-> sha, was |-> was]

AnnotationChanged == [reason |-> "annotation message changed"]

AddingAnnotation == [reason |-> "adding annotation"]

RemovingAnnotation == [reason |-> "removing annotation"]

\* reasons assembled with the annotation reason ahead of the commit reason
getUpdateReasons_AnnotationFirst(sha, annotation, existing) ==
  LET c == compareTagState(sha, annotation, existing)
      r1 == IF ~c.commitMatches
              THEN <<CommitReason(sha, existing.commitSHA)>> ELSE <<>>
      r2 == IF c.annotationMatches THEN <<>>
            ELSE IF ~Truthy(annotation) THEN <<RemovingAnnotation>>
            ELSE IF existing.isAnnotated = TRUE
              THEN <<AnnotationChanged>> ELSE <<AddingAnnotation>>
  IN r2 \o r1

\* reasons that do not name the removal of an annotation
getUpdateReasons_NoRemoval(sha, annotation, existing) ==
  LET c == compareTagState(sha, annotation, existing)
      r1 == IF ~c.commitMatches
              THEN <<CommitReason(sha, existing.commitSHA)>> ELSE <<>>
      r2 == IF ~c.annotationMatches /\ Truthy(annotation)
              THEN IF existing.isAnnotated = TRUE
                     THEN <<AnnotationChanged>> ELSE <<AddingAnnotation>>
            ELSE <<>>
  IN r1 \o r2

getUpdateReasons(sha, annotation, existing) ==
  LET c == compareTagState(sha, annotation, existing)
      r1 == IF ~c.commitMatches
              THEN <<CommitReason(sha, existing.commitSHA)>> ELSE <<>>
      r2 == IF ~c.annotationMatches /\ Truthy(annotation)
              THEN IF existing.isAnnotated = TRUE
                     THEN <<AnnotationChanged>> ELSE <<AddingAnnotation>>
            ELSE IF ~c.annotationMatches /\ ~Truthy(annotation)
                    /\ existing.isAnnotated = TRUE
              THEN <<RemovingAnnotation>>
            ELSE <<>>
  IN r1 \o r2

CreateOp(name, ref, sha, annotation) ==
  [operation |-> "create", name |-> name, ref |-> ref, sha |-> sha,
   annotation |-> annotation]

UpdateOp(name, ref, sha, annotation, existing, reasons) ==
  [operation |-> "update", name |-> name, ref |-> ref, sha |-> sha,
   annotation |-> annotation, existingSHA |-> existing.commitSHA,
   existingIsAnnotated |-> existing.isAnnotated, reasons |-> reasons]

SkipOp(name, ref, sha, existing, reason) ==
  [operation |-> "skip", name |-> name, ref |-> ref, sha |-> sha,
   existingIsAnnotated |-> existing.isAnnotated, reason |-> reason]

\* a planner that compares the states under when_exists = 'skip' too
PlanExisting_SkipCompares(name, ref, sha, annotation, existing, whenExists) ==
  LET c == compareTagState(sha, annotation, existing)
  IN IF c.commitMatches /\ c.annotationMatches
       THEN SkipOp(name, ref, sha, existing, "already_matches")
     ELSE IF whenExists = "skip"
       THEN SkipOp(name, ref, sha, existing, "when_exists_skip")
     ELSE UpdateOp(name, ref, sha, annotation, existing,
                   getUpdateReasons(sha, annotation, existing))

\* a planner under which 'skip' is taken for 'update'
PlanExisting_SkipUpdates(name, ref, sha, annotation, existing, whenExists) ==
  LET c == compareTagState(sha, annotation, existing)
  IN IF c.commitMatches /\ c.annotationMatches
       THEN SkipOp(name, ref, sha, existing, "already_matches")
       ELSE UpdateOp(name, ref, sha, annotation, existing,
                     getUpdateReasons(sha, annotation, existing))

\* the tail of the per-tag task, once `existing` is known and defined
PlanExisting(name, ref, sha, annotation, existing, whenExists) ==
  IF whenExists = "skip"
    THEN SkipOp(name, ref, sha, existing, "when_exists_skip")
  ELSE LET c == compareTagState(sha, annotation, existing)
       IN IF c.commitMatches /\ c.annotationMatches
            THEN SkipOp(name, ref, sha, existing, "already_matches")
            ELSE UpdateOp(name, ref, sha, annotation, existing,
                          getUpdateReasons(sha, annotation, existing))

\* ------------------------------------------------------------------------
\* Inputs and initial remote states the model explores
\* ------------------------------------------------------------------------
TagEntries ==
  { <<"v1">>,                        \* v1
    <<"v1", ":", "dev">>,            \* v1:dev
    <<"v2", ":", " ", "dev">>,       \* v2: dev
    <<"v2", ":", ":", "old">>,       \* v2::old
    <<>>,                            \* blank field
    <<":", "main">> }                \* :main

TagLists == UNION { [1..n -> TagEntries] : n \in 1..MaxTags }

DefaultRefs == { EMPTY, <<"main">> }

Annotations == { EMPTY, <<"msg">> }

WhenExistsModes == { "update", "skip", "fail" }

TagNames == { <<"v1">>, <<"v2">> }

InitialTargets(name) ==
  { Absent, Lightweight(Commit("s1")),
    Annotated(TagObject(name, <<"msg">>, Commit("s1"))) }

VARIABLES
  given,           \* the values given for the inputs of the action
  inputs,          \* Inputs: tags, defaultRef, annotation, whenExists, dryRun
  remote,          \* tag name -> what refs/tags/<name> points at
  remote0,         \* remote at the start of the current run
  tagObjects,      \* annotated tag objects stored on the remote
  runNo,           \* number of the current run
  prev,            \* plan and calls of the previous run
  faults,          \* provider failures that occurred so far
  status,          \* "running", "failed" (core.setFailed) or "succeeded"
  failure,         \* the message handed to core.setFailed
  phase,           \* position of run(): start, resolving, inspecting, executing, finished
  tagRefs,         \* planTagOperations: tagRefs
  tagAnnotations,  \* planTagOperations: tagAnnotations
  uniqueRefs,      \* planTagOperations: uniqueRefs
  refSHAs,         \* planTagOperations: refSHAs
  refTask,         \* ref -> state of its resolution promise
  tagTask,         \* tag name -> state of its planning promise
  plan,            \* the TagOperation[] returned by planTagOperations
  next,            \* index in plan of the operation being executed
  target,          \* targetSha of the operation being executed, once resolved
  calls,           \* provider calls issued in the current run, in order
  created,
  updated,
  skipped,
  outputs          \* core.setOutput values

envVars == <<given, inputs, remote, remote0, tagObjects, runNo, prev, faults>>

planVars == <<tagRefs, tagAnnotations, uniqueRefs, refSHAs, refTask, tagTask, plan>>

execVars == <<next, target, created, updated, skipped, outputs>>

vars == <<envVars, status, failure, phase, planVars, execVars, calls>>

NoTarget == [type |-> "none"]

NoGiven == [read |-> TRUE]

NoInputs == [set |-> FALSE]

NoOutputs == [set |-> FALSE]

RemoteGet(name) == IF name \in DOMAIN remote THEN remote[name] ELSE Absent

InitialObjects(r) ==
  { r[n].sha : n \in { m \in DOMAIN r : r[m].type = "tag" } }

\* the state in which run() is entered
RunEntry ==
  /\ status = "running"
  /\ failure = NoError
  /\ phase = "start"
  /\ tagRefs = EmptyObj
  /\ tagAnnotations = EmptyObj
  /\ uniqueRefs = <<>>
  /\ refSHAs = EmptyObj
  /\ refTask = <<>>
  /\ tagTask = <<>>
  /\ plan = <<>>
  /\ next = 1
  /\ target = NoTarget
  /\ calls = <<>>
  /\ created = <<>>
  /\ updated = <<>>
  /\ skipped = <<>>
  /\ outputs = NoOutputs

\* the universe of the specification Spec: run() after getInputs has returned
\* the Inputs (the action's raw inputs are not looked at again)
Init ==
  /\ given = NoGiven
  /\ inputs \in [tags : TagLists, defaultRef : DefaultRefs,
                  annotation : Annotations, whenExists : WhenExistsModes,
                  dryRun : BOOLEAN]
  /\ remote \in { r \in [TagNames -> UNION { InitialTargets(n) : n \in TagNames }] :
                    \A n \in TagNames : r[n] \in InitialTargets(n) }
  /\ remote0 = remote
  /\ tagObjects = InitialObjects(remote)
  /\ runNo = 1
  /\ prev = [plan |-> <<>>, calls |-> <<>>]
  /\ faults = {}
  /\ RunEntry

\* the inputs of the action the specification InputsSpec explores
GivenTags ==
  { EMPTY,                                                  \* (not given)
    <<"latest">>,                                           \* latest
    <<"v2", ":", ":", "new", ",", "v2", ":", ":", "old", ",", "v2">>,
                                                            \* v2::new,v2::old,v2
    <<"v1", ":", "main", ":", "Release", ":", " ", "v1">>,  \* v1:main:Release: v1
    <<",", " ">>,                                           \* two blank fields
    <<"constructor">> }                                     \* constructor

\* (a name given in the tag list is one token, and no version below derives
\* a tag that spells the name of such a token)
GivenVersions ==
  { EMPTY,                                   \* (not given)
    <<"v", "3", ".", "2", ".", "1">>,        \* v3.2.1
    <<"3", ".", "0", ".", "0">>,             \* 3.0.0
    <<" ">>,                                 \* (a blank)
    <<"v", "1", ".", "2">> }                 \* v1.2

GivenTemplates ==
  { EMPTY,                                                      \* (the default)
    <<"{{prefix}}", "{{major}}", ",", ",", " ", "{{prefix}}">>, \* {{prefix}}{{major}},, {{prefix}}
    <<"{{prefix}}", NEWLINE>>,                                  \* {{prefix}}\n
    <<" ", "{{prefix}}", "{{major}}", " ", NEWLINE, "{{prefix}}", "{{version}}",
      ",", "latest">> }                       \* ' {{prefix}}{{major}} \n{{prefix}}{{version}},latest'

GivenWhenExists == { EMPTY, <<"skip">>, <<"bogus">> }

GivenRemotes ==
  { <<>>,
    (<<"latest">> :> Lightweight(Commit("s1")))
      @@ (<<"3">> :> Annotated(TagObject(<<"3">>, <<"msg">>, Commit("s1"))))
      @@ (<<"v2">> :> Annotated(TagObject(<<"v2">>, <<"old">>, Commit("s1")))) }

\* the universe of the specification InputsSpec: run() is entered, getInputs
\* has not been called yet
InputsInit ==
  /\ given \in [tags : GivenTags, deriveFrom : GivenVersions,
                 deriveFromTemplate : GivenTemplates, ref : { <<"main">> },
                 annotation : Annotations, whenExists : GivenWhenExists,
                 dryRun : BOOLEAN]
  /\ inputs = NoInputs
  /\ remote \in GivenRemotes
  /\ remote0 = remote
  /\ tagObjects = InitialObjects(remote)
  /\ runNo = 1
  /\ prev = [plan |-> <<>>, calls |-> <<>>]
  /\ faults = {}
  /\ status = "running"
  /\ failure = NoError
  /\ phase = "inputs"
  /\ tagRefs = EmptyObj
  /\ tagAnnotations = EmptyObj
  /\ uniqueRefs = <<>>
  /\ refSHAs = EmptyObj
  /\ refTask = <<>>
  /\ tagTask = <<>>
  /\ plan = <<>>
  /\ next = 1
  /\ target = NoTarget
  /\ calls = <<>>
  /\ created = <<>>
  /\ updated = <<>>
  /\ skipped = <<>>
  /\ outputs = NoOutputs

\* the operations the specification ExecutorSpec hands to executeTagOperation
\* directly; the last one is of no known kind
GivenOperations ==
  { CreateOp(<<"v1">>, <<"main">>, Commit("s1"), EMPTY),
    CreateOp(<<"v2">>, <<"main">>, Commit("s1"), <<"msg">>),
    UpdateOp(<<"v1">>, <<"main">>, Commit("s1"), <<"msg">>,
             ExistingInfo(Commit("s1"), FALSE, EMPTY), <<AddingAnnotation>>),
    SkipOp(<<"v2">>, <<"main">>, Commit("s1"),
           ExistingInfo(Commit("s1"), FALSE, EMPTY), "already_matches"),
    [operation |-> "invalid", name |-> <<"v1">>, ref |-> <<"main">>,
     sha |-> Commit("s1")] }

MaxOperations == 2

\* executeTagOperation is called on each operation of a list, in a loop like
\* that of run(), without a plan having been made
DirectInit ==
  /\ given = NoGiven
  /\ inputs \in [dryRun : BOOLEAN]
  /\ remote \in { r \in [TagNames -> UNION { InitialTargets(n) : n \in TagNames }] :
                    \A n \in TagNames : r[n] \in InitialTargets(n) }
  /\ remote0 = remote
  /\ tagObjects = InitialObjects(remote)
  /\ runNo = 1
  /\ prev = [plan |-> <<>>, calls |-> <<>>]
  /\ faults = {}
  /\ status = "running"
  /\ failure = NoError
  /\ phase = "executing"
  /\ tagRefs = EmptyObj
  /\ tagAnnotations = EmptyObj
  /\ uniqueRefs = <<>>
  /\ refSHAs = EmptyObj
  /\ refTask = <<>>
  /\ tagTask = <<>>
  /\ plan \in UNION { [1..n -> GivenOperations] : n \in 1..MaxOperations }
  /\ next = 1
  /\ target = NoTarget
  /\ calls = <<>>
  /\ created = <<>>
  /\ updated = <<>>
  /\ skipped = <<>>
  /\ outputs = NoOutputs

\* the universe of the specification ExecutorSpec: a run of the action, or
\* executeTagOperation called on operations of any kind
ExecutorInit == Init \/ DirectInit

\* ------------------------------------------------------------------------
\* Provider calls
\* ------------------------------------------------------------------------
GetCommitCall(ref) == [api |-> "getCommit", ref |-> ref]

GetRefCall(name) == [api |-> "getRef", ref |-> <<"tags/">> \o name]

GetTagCall(tagSha) == [api |-> "getTag", tag_sha |-> tagSha]

CreateTagCall(name, message, commitSha) ==
  [api |-> "createTag", tag |-> name, message |-> message,
   object |-> commitSha, type |-> "commit"]

CreateRefCall(name, sha) ==
  [api |-> "createRef", ref |-> <<"refs/tags/">> \o name, sha |-> sha]

\* an update that is not forced
UpdateRefCall_Unforced(name, sha) ==
  [api |-> "updateRef", ref |-> <<"tags/">> \o name, sha |-> sha, force |-> FALSE]

UpdateRefCall(name, sha) ==
  [api |-> "updateRef", ref |-> <<"tags/">> \o name, sha |-> sha, force |-> TRUE]

\* a provider failure: the call that failed and the status it answered
Fault(api, key, answer) == [run |-> runNo, api |-> api, key |-> key, answer |-> answer]

\* the provider fails a call (at most MaxFaults times in a behaviour)
Fails(api, key, answer) ==
  /\ Cardinality(faults) < MaxFaults
  /\ faults' = faults \cup {Fault(api, key, answer)}

\* ------------------------------------------------------------------------
\* run(): planning
\* ------------------------------------------------------------------------
\* a run() that reports the rejection it saw last
Reject_LastReported(err) == status' = "failed" /\ failure' = err

\* the first rejection settles the awaited promise; run() reports it with
\* core.setFailed and returns.  Later rejections are not observed.
Reject(err) ==
  IF status = "running"
    THEN status' = "failed" /\ failure' = err
    ELSE UNCHANGED <<status, failure>>

\* run() calls getInputs: a throw is reported with core.setFailed and run()
\* returns
GetInputs ==
  /\ phase = "inputs"
  /\ LET r == getInputs(ValuesRead(given))
     IN IF r.error # NoError
          THEN /\ status' = "failed"
               /\ failure' = r.error
               /\ phase' = "finished"
               /\ UNCHANGED inputs
          ELSE /\ inputs' = r.inputs
               /\ phase' = "start"
               /\ UNCHANGED <<status, failure>>
  /\ UNCHANGED <<given, remote, remote0, tagObjects, runNo, prev, faults, planVars,
                 execVars, calls>>

\* run() calls planTagOperations: the parsing loop runs to its end, or to its
\* throw, and then every distinct ref's getCommit is issued
StartRun ==
  /\ phase = "start"
  /\ LET p == ParseTags(inputs.tags, inputs.defaultRef)
     IN IF p.error # NoError
          THEN /\ status' = "failed"
               /\ failure' = p.error
               /\ phase' = "finished"
               /\ UNCHANGED <<planVars, calls>>
          ELSE /\ tagRefs' = p.tagRefs
               /\ tagAnnotations' = p.tagAnnotations
               /\ uniqueRefs' = p.uniqueRefs
               /\ refTask' = [r \in Range(p.uniqueRefs) |-> "pending"]
               /\ calls' = calls \o [i \in 1..Len(p.uniqueRefs) |-> GetCommitCall(p.uniqueRefs[i])]
               /\ phase' = "resolving"
               /\ UNCHANGED <<status, failure, refSHAs, tagTask, plan>>
  /\ UNCHANGED <<envVars, execVars>>

\* tasks that all write the entry of the first ref
GetCommitOk_SharedKey(ref) ==
  /\ ref \in DOMAIN refTask
  /\ refTask[ref] = "pending"
  /\ refSHAs' = ObjSet(refSHAs, uniqueRefs[1], CommitOf(ref))
  /\ refTask' = [refTask EXCEPT ![ref] = "fulfilled"]
  /\ UNCHANGED <<envVars, status, failure, phase, tagRefs, tagAnnotations,
                 uniqueRefs, tagTask, plan, execVars, calls>>

\* a getCommit call returns: refSHAs[ref] is written
GetCommitOk(ref) ==
  /\ ref \in DOMAIN refTask
  /\ refTask[ref] = "pending"
  /\ refSHAs' = ObjSet(refSHAs, ref, CommitOf(ref))
  /\ refTask' = [refTask EXCEPT ![ref] = "fulfilled"]
  /\ UNCHANGED <<envVars, status, failure, phase, tagRefs, tagAnnotations,
                 uniqueRefs, tagTask, plan, execVars, calls>>

\* a failed getCommit that is swallowed: the ref resolves to nothing
GetCommitFails_Swallowed(ref) ==
  /\ ref \in DOMAIN refTask
  /\ refTask[ref] = "pending"
  /\ Fails("getCommit", ref, 500)
  /\ refSHAs' = ObjSet(refSHAs, ref, Commit("none"))
  /\ refTask' = [refTask EXCEPT ![ref] = "fulfilled"]
  /\ UNCHANGED <<given, inputs, remote, remote0, tagObjects, runNo, prev, status, failure,
                 phase, tagRefs, tagAnnotations, uniqueRefs, tagTask, plan,
                 execVars, calls>>

\* a getCommit call fails: resolveRefToSha wraps the error and throws
GetCommitFails(ref) ==
  /\ ref \in DOMAIN refTask
  /\ refTask[ref] = "pending"
  /\ Fails("getCommit", ref, 500)
  /\ refTask' = [refTask EXCEPT ![ref] = "rejected"]
  /\ Reject(RefResolutionFailed(ref))
  /\ UNCHANGED <<given, inputs, remote, remote0, tagObjects, runNo, prev, phase, tagRefs,
                 tagAnnotations, uniqueRefs, refSHAs, tagTask, plan, execVars,
                 calls>>

\* a second wave that starts as soon as one ref is resolved
StartInspection_AfterFirstRef ==
  /\ phase = "resolving"
  /\ \E r \in DOMAIN refTask : refTask[r] = "fulfilled"
  /\ phase' = "inspecting"
  /\ tagTask' = [n \in Range(ObjKeys(tagRefs)) |-> [st |-> "getRef"]]
  /\ calls' = calls \o [i \in 1..Len(ObjKeys(tagRefs)) |-> GetRefCall(ObjKeys(tagRefs)[i])]
  /\ UNCHANGED <<envVars, status, failure, tagRefs, tagAnnotations, uniqueRefs,
                 refSHAs, refTask, plan, execVars>>

\* every ref is resolved: the second wave issues getRef for every tag name
StartInspection ==
  /\ phase = "resolving"
  /\ \A r \in DOMAIN refTask : refTask[r] = "fulfilled"
  /\ phase' = "inspecting"
  /\ tagTask' = [n \in Range(ObjKeys(tagRefs)) |-> [st |-> "getRef"]]
  /\ calls' = calls \o [i \in 1..Len(ObjKeys(tagRefs)) |-> GetRefCall(ObjKeys(tagRefs)[i])]
  /\ UNCHANGED <<envVars, status, failure, tagRefs, tagAnnotations, uniqueRefs,
                 refSHAs, refTask, plan, execVars>>

\* a planner that does not throw under when_exists = 'fail' in dry-run
Settle_DryRunNeverFails(tagName, found, existing) ==
  LET tagRef == ObjGet(tagRefs, tagName)
      sha == OwnGet(refSHAs, tagRef)
      annotation == OrElse(ObjGet(tagAnnotations, tagName), inputs.annotation)
  IN IF found /\ inputs.whenExists = "fail" /\ ~inputs.dryRun
       THEN /\ tagTask' = [tagTask EXCEPT ![tagName] = [st |-> "rejected"]]
            /\ Reject(TagAlreadyExists(tagName))
     ELSE /\ tagTask' = [tagTask EXCEPT ![tagName] =
                 [st |-> "fulfilled",
                  op |-> IF found
                           THEN PlanExisting(tagName, tagRef, sha, annotation,
                                             existing, inputs.whenExists)
                           ELSE CreateOp(tagName, tagRef, sha, annotation)]]
          /\ UNCHANGED <<status, failure>>

\* a planner without the early throw under when_exists = 'fail'
Settle_NoFailFast(tagName, found, existing) ==
  LET tagRef == ObjGet(tagRefs, tagName)
      sha == OwnGet(refSHAs, tagRef)
      annotation == OrElse(ObjGet(tagAnnotations, tagName), inputs.annotation)
  IN /\ tagTask' = [tagTask EXCEPT ![tagName] =
            [st |-> "fulfilled",
             op |-> IF found
                      THEN PlanExisting(tagName, tagRef, sha, annotation,
                                        existing, inputs.whenExists)
                      ELSE CreateOp(tagName, tagRef, sha, annotation)]]
     /\ UNCHANGED <<status, failure>>

\* a planner in which the default annotation goes before the one of the tag
Settle_DefaultAnnotationFirst(tagName, found, existing) ==
  LET tagRef == ObjGet(tagRefs, tagName)
      sha == OwnGet(refSHAs, tagRef)
      annotation == OrElse(inputs.annotation, ObjGet(tagAnnotations, tagName))
  IN IF found /\ inputs.whenExists = "fail"
       THEN /\ tagTask' = [tagTask EXCEPT ![tagName] = [st |-> "rejected"]]
            /\ Reject(TagAlreadyExists(tagName))
     ELSE /\ tagTask' = [tagTask EXCEPT ![tagName] =
                 [st |-> "fulfilled",
                  op |-> IF found
                           THEN PlanExisting(tagName, tagRef, sha, annotation,
                                             existing, inputs.whenExists)
                           ELSE CreateOp(tagName, tagRef, sha, annotation)]]
          /\ UNCHANGED <<status, failure>>

\* what the task of tagName does once fetchTagInfo has settled, `existing`
\* being the info fetched (found = FALSE: existing stays undefined)
Settle(tagName, found, existing) ==
  LET tagRef == ObjGet(tagRefs, tagName)
      sha == OwnGet(refSHAs, tagRef)
      annotation == OrElse(ObjGet(tagAnnotations, tagName), inputs.annotation)
  IN IF found /\ inputs.whenExists = "fail"
       THEN /\ tagTask' = [tagTask EXCEPT ![tagName] = [st |-> "rejected"]]
            /\ Reject(TagAlreadyExists(tagName))
     ELSE /\ tagTask' = [tagTask EXCEPT ![tagName] =
                 [st |-> "fulfilled",
                  op |-> IF found
                           THEN PlanExisting(tagName, tagRef, sha, annotation,
                                             existing, inputs.whenExists)
                           ELSE CreateOp(tagName, tagRef, sha, annotation)]]
          /\ UNCHANGED <<status, failure>>

NoInfo == ExistingInfo(Commit("none"), FALSE, UNDEF)

\* getRef answers 404: the tag does not exist
GetRefNotFound(tagName) ==
  /\ tagName \in DOMAIN tagTask
  /\ tagTask[tagName].st = "getRef"
  /\ RemoteGet(tagName) = Absent
  /\ Settle(tagName, FALSE, NoInfo)
  /\ UNCHANGED <<envVars, phase, tagRefs, tagAnnotations, uniqueRefs, refSHAs,
                 refTask, plan, execVars, calls>>

\* getRef finds a lightweight tag
GetRefLightweight(tagName) ==
  /\ tagName \in DOMAIN tagTask
  /\ tagTask[tagName].st = "getRef"
  /\ RemoteGet(tagName).type = "commit"
  /\ Settle(tagName, TRUE, ExistingInfo(RemoteGet(tagName).sha, FALSE, UNDEF))
  /\ UNCHANGED <<envVars, phase, tagRefs, tagAnnotations, uniqueRefs, refSHAs,
                 refTask, plan, execVars, calls>>

\* getRef finds an annotated tag: fetchTagInfo issues getTag
GetRefAnnotated(tagName) ==
  /\ tagName \in DOMAIN tagTask
  /\ tagTask[tagName].st = "getRef"
  /\ RemoteGet(tagName).type = "tag"
  /\ tagTask' = [tagTask EXCEPT ![tagName] =
                   [st |-> "getTag", object |-> RemoteGet(tagName).sha]]
  /\ calls' = Append(calls, GetTagCall(RemoteGet(tagName).sha))
  /\ UNCHANGED <<envVars, status, failure, phase, tagRefs, tagAnnotations,
                 uniqueRefs, refSHAs, refTask, plan, execVars>>

\* a catch block that takes every failure of getRef for an absent tag
GetRefFails_TreatedAsAbsent(tagName) ==
  /\ tagName \in DOMAIN tagTask
  /\ tagTask[tagName].st = "getRef"
  /\ Fails("getRef", tagName, 500)
  /\ Settle(tagName, FALSE, NoInfo)
  /\ UNCHANGED <<given, inputs, remote, remote0, tagObjects, runNo, prev, phase, tagRefs,
                 tagAnnotations, uniqueRefs, refSHAs, refTask, plan, execVars,
                 calls>>

\* getRef fails with a status other than 404
GetRefFails(tagName) ==
  /\ tagName \in DOMAIN tagTask
  /\ tagTask[tagName].st = "getRef"
  /\ Fails("getRef", tagName, 500)
  /\ tagTask' = [tagTask EXCEPT ![tagName] = [st |-> "rejected"]]
  /\ Reject(TagCheckFailed(tagName))
  /\ UNCHANGED <<given, inputs, remote, remote0, tagObjects, runNo, prev, phase, tagRefs,
                 tagAnnotations, uniqueRefs, refSHAs, refTask, plan, execVars,
                 calls>>

\* an inspection that takes the ref target of an annotated tag for its commit
GetTagOk_NoDereference(tagName) ==
  /\ tagName \in DOMAIN tagTask
  /\ tagTask[tagName].st = "getTag"
  /\ LET obj == tagTask[tagName].object
     IN Settle(tagName, TRUE, ExistingInfo(obj, TRUE, obj.message))
  /\ UNCHANGED <<envVars, phase, tagRefs, tagAnnotations, uniqueRefs, refSHAs,
                 refTask, plan, execVars, calls>>

\* getTag returns the tag object
GetTagOk(tagName) ==
  /\ tagName \in DOMAIN tagTask
  /\ tagTask[tagName].st = "getTag"
  /\ LET obj == tagTask[tagName].object
     IN Settle(tagName, TRUE, ExistingInfo(obj.object, TRUE, obj.message))
  /\ UNCHANGED <<envVars, phase, tagRefs, tagAnnotations, uniqueRefs, refSHAs,
                 refTask, plan, execVars, calls>>

\* getTag answers 404: the catch block takes it for an absent tag
GetTagNotFound(tagName) ==
  /\ tagName \in DOMAIN tagTask
  /\ tagTask[tagName].st = "getTag"
  /\ Fails("getTag", tagName, 404)
  /\ Settle(tagName, FALSE, NoInfo)
  /\ UNCHANGED <<given, inputs, remote, remote0, tagObjects, runNo, prev, phase, tagRefs,
                 tagAnnotations, uniqueRefs, refSHAs, refTask, plan, execVars,
                 calls>>

\* getTag fails with a status other than 404
GetTagFails(tagName) ==
  /\ tagName \in DOMAIN tagTask
  /\ tagTask[tagName].st = "getTag"
  /\ Fails("getTag", tagName, 500)
  /\ tagTask' = [tagTask EXCEPT ![tagName] = [st |-> "rejected"]]
  /\ Reject(TagCheckFailed(tagName))
  /\ UNCHANGED <<given, inputs, remote, remote0, tagObjects, runNo, prev, phase, tagRefs,
                 tagAnnotations, uniqueRefs, refSHAs, refTask, plan, execVars,
                 calls>>

\* a planner that hands over the operations it has as soon as one tag is
\* inspected, without waiting for the others
PlanReady_Streaming ==
  /\ phase = "inspecting"
  /\ \E n \in DOMAIN tagTask : tagTask[n].st = "fulfilled"
  /\ LET IsFulfilled(n) == tagTask[n].st = "fulfilled"
         ready == SelectSeq(ObjKeys(tagRefs), IsFulfilled)
     IN plan' = [i \in 1..Len(ready) |-> tagTask[ready[i]].op]
  /\ phase' = "executing"
  /\ UNCHANGED <<envVars, status, failure, tagRefs, tagAnnotations, uniqueRefs,
                 refSHAs, refTask, tagTask, execVars, calls>>

\* a planner that returns the operations in the order in which the
\* inspections end, those that dereference a tag object after the others
PlanReady_CompletionOrder ==
  /\ phase = "inspecting"
  /\ \A n \in DOMAIN tagTask : tagTask[n].st = "fulfilled"
  /\ LET Late(n) == /\ "existingIsAnnotated" \in DOMAIN tagTask[n].op
                    /\ tagTask[n].op.existingIsAnnotated
         Early(n) == ~Late(n)
         order == SelectSeq(ObjKeys(tagRefs), Early) \o SelectSeq(ObjKeys(tagRefs), Late)
     IN plan' = [i \in 1..Len(order) |-> tagTask[order[i]].op]
  /\ phase' = "executing"
  /\ UNCHANGED <<envVars, status, failure, tagRefs, tagAnnotations, uniqueRefs,
                 refSHAs, refTask, tagTask, execVars, calls>>

\* every task is fulfilled: planTagOperations returns the operations in the
\* order of Object.keys(tagRefs)
PlanReady ==
  /\ phase = "inspecting"
  /\ \A n \in DOMAIN tagTask : tagTask[n].st = "fulfilled"
  /\ plan' = [i \in 1..Len(ObjKeys(tagRefs)) |-> tagTask[ObjKeys(tagRefs)[i]].op]
  /\ phase' = "executing"
  /\ UNCHANGED <<envVars, status, failure, tagRefs, tagAnnotations, uniqueRefs,
                 refSHAs, refTask, tagTask, execVars, calls>>

\* ------------------------------------------------------------------------
\* run(): execution of the plan, one operation after the other
\* ------------------------------------------------------------------------
Executing == phase = "executing" /\ status = "running" /\ next <= Len(plan)

\* a run() that reports the planned operations in dry-run too
Report_InDryRunToo(list, name) == Append(list, name)

\* the list run() reports the operation in (nothing is reported in dry-run)
Report(list, name) == IF inputs.dryRun THEN list ELSE Append(list, name)

\* what a ref pointing at sha is: an annotated or a lightweight tag
TargetOf(sha) == IF "tag" \in DOMAIN sha THEN Annotated(sha) ELSE Lightweight(sha)

\* executeTagOperation on a skip: logSkipOperation only
ExecuteSkip ==
  /\ Executing
  /\ plan[next].operation = "skip"
  /\ skipped' = Report(skipped, plan[next].name)
  /\ next' = next + 1
  /\ UNCHANGED <<envVars, status, failure, phase, planVars, target, created,
                 updated, outputs, calls>>

\* createTag / updateExistingTag in dry-run: log and return
ExecuteDryRun ==
  /\ Executing
  /\ plan[next].operation \in {"create", "update"}
  /\ inputs.dryRun
  /\ next' = next + 1
  /\ UNCHANGED <<envVars, status, failure, phase, planVars, target, created,
                 updated, skipped, outputs, calls>>

\* resolveTargetSHA with an annotation: git.createTag stores the tag object
CreateTagObject ==
  /\ Executing
  /\ plan[next].operation \in {"create", "update"}
  /\ ~inputs.dryRun
  /\ Truthy(plan[next].annotation)
  /\ target = NoTarget
  /\ LET op == plan[next]
         obj == TagObject(op.name, op.annotation, op.sha)
     IN /\ calls' = Append(calls, CreateTagCall(op.name, op.annotation, op.sha))
        /\ tagObjects' = tagObjects \cup {obj}
        /\ target' = obj
  /\ UNCHANGED <<given, inputs, remote, remote0, runNo, prev, faults, status, failure, phase,
                 planVars, next, created, updated, skipped, outputs>>

\* git.createTag fails: the error leaves executeTagOperation and run() fails
CreateTagFails ==
  /\ Executing
  /\ plan[next].operation \in {"create", "update"}
  /\ ~inputs.dryRun
  /\ Truthy(plan[next].annotation)
  /\ target = NoTarget
  /\ Fails("createTag", plan[next].name, 500)
  /\ LET op == plan[next]
     IN calls' = Append(calls, CreateTagCall(op.name, op.annotation, op.sha))
  /\ status' = "failed"
  /\ failure' = ActionFailed
  /\ phase' = "finished"
  /\ UNCHANGED <<given, inputs, remote, remote0, tagObjects, runNo, prev, planVars, execVars>>

\* a ref call that is always given the commit
TargetSha_CommitAlways == plan[next].sha

\* the sha the ref is pointed at: resolveTargetSHA's result
TargetSha == IF target # NoTarget THEN target ELSE plan[next].sha

\* an executor without the `if (ctx.dryRun) return` of createTag and
\* updateExistingTag
RefStep_IgnoresDryRun(kind) ==
  /\ Executing
  /\ plan[next].operation = kind
  /\ Truthy(plan[next].annotation) => target # NoTarget

\* createTag / updateExistingTag reach their ref call: not in dry-run, and
\* resolveTargetSHA has returned
RefStep(kind) ==
  /\ Executing
  /\ plan[next].operation = kind
  /\ ~inputs.dryRun
  /\ Truthy(plan[next].annotation) => target # NoTarget

\* createTag: git.createRef on refs/tags/<name> succeeds
CreateRefOk ==
  /\ RefStep("create")
  /\ RemoteGet(plan[next].name) = Absent
  /\ calls' = Append(calls, CreateRefCall(plan[next].name, TargetSha))
  /\ remote' = (plan[next].name :> TargetOf(TargetSha)) @@ remote
  /\ created' = Report(created, plan[next].name)
  /\ next' = next + 1
  /\ target' = NoTarget
  /\ UNCHANGED <<given, inputs, remote0, tagObjects, runNo, prev, faults, status, failure,
                 phase, planVars, updated, skipped, outputs>>

\* updateExistingTag: git.updateRef on tags/<name>, forced, succeeds
UpdateRefOk ==
  /\ RefStep("update")
  /\ RemoteGet(plan[next].name) # Absent
  /\ calls' = Append(calls, UpdateRefCall(plan[next].name, TargetSha))
  /\ remote' = (plan[next].name :> TargetOf(TargetSha)) @@ remote
  /\ updated' = Report(updated, plan[next].name)
  /\ next' = next + 1
  /\ target' = NoTarget
  /\ UNCHANGED <<given, inputs, remote0, tagObjects, runNo, prev, faults, status, failure,
                 phase, planVars, created, skipped, outputs>>

\* git.createRef fails (the reference exists already, or any other provider
\* failure): the error leaves executeTagOperation and run() fails
CreateRefFails ==
  /\ RefStep("create")
  /\ \/ RemoteGet(plan[next].name) # Absent /\ UNCHANGED faults
     \/ Fails("createRef", plan[next].name, 500)
  /\ calls' = Append(calls, CreateRefCall(plan[next].name, TargetSha))
  /\ status' = "failed"
  /\ failure' = ActionFailed
  /\ phase' = "finished"
  /\ UNCHANGED <<given, inputs, remote, remote0, tagObjects, runNo, prev, planVars, execVars>>

\* git.updateRef fails: the error leaves executeTagOperation and run() fails
UpdateRefFails ==
  /\ RefStep("update")
  /\ Fails("updateRef", plan[next].name, 500)
  /\ calls' = Append(calls, UpdateRefCall(plan[next].name, TargetSha))
  /\ status' = "failed"
  /\ failure' = ActionFailed
  /\ phase' = "finished"
  /\ UNCHANGED <<given, inputs, remote, remote0, tagObjects, runNo, prev, planVars, execVars>>

\* a run() whose output tags lists every name it handled
Finish_TagsIncludeSkipped ==
  /\ phase = "executing"
  /\ status = "running"
  /\ next > Len(plan)
  /\ outputs' = [set |-> TRUE, created |-> created, updated |-> updated,
                  skipped |-> skipped, tags |-> created \o updated \o skipped]
  /\ status' = "succeeded"
  /\ phase' = "finished"
  /\ UNCHANGED <<envVars, failure, planVars, next, target, created, updated,
                 skipped, calls>>

\* an executeTagOperation that passes over an operation of no known kind
ExecuteUnknown_Ignored ==
  /\ Executing
  /\ plan[next].operation \notin {"skip", "create", "update"}
  /\ next' = next + 1
  /\ UNCHANGED <<envVars, status, failure, phase, planVars, target, created,
                 updated, skipped, outputs, calls>>

\* executeTagOperation on an operation that is neither skip, create nor
\* update: it throws, no provider call is made
ExecuteUnknown ==
  /\ Executing
  /\ plan[next].operation \notin {"skip", "create", "update"}
  /\ status' = "failed"
  /\ failure' = UnknownOperation(plan[next].operation)
  /\ phase' = "finished"
  /\ UNCHANGED <<envVars, planVars, execVars, calls>>

\* every operation is executed: the outputs are set
Finish ==
  /\ phase = "executing"
  /\ status = "running"
  /\ next > Len(plan)
  /\ outputs' = [set |-> TRUE, created |-> created, updated |-> updated,
                  skipped |-> skipped, tags |-> created \o updated]
  /\ status' = "succeeded"
  /\ phase' = "finished"
  /\ UNCHANGED <<envVars, failure, planVars, next, target, created, updated,
                 skipped, calls>>

\* the action is run again with the same inputs on the remote as it is now
Rerun ==
  /\ status = "succeeded"
  /\ runNo < MaxRuns
  /\ runNo' = runNo + 1
  /\ prev' = [plan |-> plan, calls |-> calls]
  /\ remote0' = remote
  /\ status' = "running"
  /\ failure' = NoError
  /\ phase' = "start"
  /\ tagRefs' = EmptyObj
  /\ tagAnnotations' = EmptyObj
  /\ uniqueRefs' = <<>>
  /\ refSHAs' = EmptyObj
  /\ refTask' = <<>>
  /\ tagTask' = <<>>
  /\ plan' = <<>>
  /\ next' = 1
  /\ target' = NoTarget
  /\ calls' = <<>>
  /\ created' = <<>>
  /\ updated' = <<>>
  /\ skipped' = <<>>
  /\ outputs' = NoOutputs
  /\ UNCHANGED <<given, inputs, remote, tagObjects, faults>>

Next ==
  \/ StartRun
  \/ \E ref \in DOMAIN refTask : GetCommitOk(ref)
  \/ \E ref \in DOMAIN refTask : GetCommitFails(ref)
  \/ StartInspection
  \/ \E tagName \in DOMAIN tagTask : GetRefNotFound(tagName)
  \/ \E tagName \in DOMAIN tagTask : GetRefLightweight(tagName)
  \/ \E tagName \in DOMAIN tagTask : GetRefAnnotated(tagName)
  \/ \E tagName \in DOMAIN tagTask : GetRefFails(tagName)
  \/ \E tagName \in DOMAIN tagTask : GetTagOk(tagName)
  \/ \E tagName \in DOMAIN tagTask : GetTagNotFound(tagName)
  \/ \E tagName \in DOMAIN tagTask : GetTagFails(tagName)
  \/ PlanReady
  \/ ExecuteSkip
  \/ ExecuteDryRun
  \/ CreateTagObject
  \/ CreateTagFails
  \/ CreateRefOk
  \/ UpdateRefOk
  \/ CreateRefFails
  \/ UpdateRefFails
  \/ Finish
  \/ Rerun

Spec == Init /\ [][Next]_vars

\* one run of the action, or executeTagOperation called directly
ExecutorNext ==
  \/ StartRun
  \/ \E ref \in DOMAIN refTask : GetCommitOk(ref)
  \/ \E ref \in DOMAIN refTask : GetCommitFails(ref)
  \/ StartInspection
  \/ \E tagName \in DOMAIN tagTask : GetRefNotFound(tagName)
  \/ \E tagName \in DOMAIN tagTask : GetRefLightweight(tagName)
  \/ \E tagName \in DOMAIN tagTask : GetRefAnnotated(tagName)
  \/ \E tagName \in DOMAIN tagTask : GetRefFails(tagName)
  \/ \E tagName \in DOMAIN tagTask : GetTagOk(tagName)
  \/ \E tagName \in DOMAIN tagTask : GetTagNotFound(tagName)
  \/ \E tagName \in DOMAIN tagTask : GetTagFails(tagName)
  \/ PlanReady
  \/ ExecuteSkip
  \/ ExecuteDryRun
  \/ CreateTagObject
  \/ CreateTagFails
  \/ CreateRefOk
  \/ UpdateRefOk
  \/ CreateRefFails
  \/ UpdateRefFails
  \/ ExecuteUnknown
  \/ Finish

ExecutorSpec == ExecutorInit /\ [][ExecutorNext]_vars

\* one run of the action, from planTagOperations to the outputs
RunNext ==
  \/ StartRun
  \/ \E ref \in DOMAIN refTask : GetCommitOk(ref)
  \/ \E ref \in DOMAIN refTask : GetCommitFails(ref)
  \/ StartInspection
  \/ \E tagName \in DOMAIN tagTask : GetRefNotFound(tagName)
  \/ \E tagName \in DOMAIN tagTask : GetRefLightweight(tagName)
  \/ \E tagName \in DOMAIN tagTask : GetRefAnnotated(tagName)
  \/ \E tagName \in DOMAIN tagTask : GetRefFails(tagName)
  \/ \E tagName \in DOMAIN tagTask : GetTagOk(tagName)
  \/ \E tagName \in DOMAIN tagTask : GetTagNotFound(tagName)
  \/ \E tagName \in DOMAIN tagTask : GetTagFails(tagName)
  \/ PlanReady
  \/ ExecuteSkip
  \/ ExecuteDryRun
  \/ CreateTagObject
  \/ CreateTagFails
  \/ CreateRefOk
  \/ UpdateRefOk
  \/ CreateRefFails
  \/ UpdateRefFails
  \/ Finish

RunSpec == Init /\ [][RunNext]_vars

\* run() from its first statement on, on the inputs of the action
InputsNext == GetInputs \/ RunNext

InputsSpec == InputsInit /\ [][InputsNext]_vars

\* ------------------------------------------------------------------------
\* Vocabulary of the properties
\* ------------------------------------------------------------------------
MutatingApis == {"createTag", "createRef", "updateRef"}

RefMutatingApis == {"createRef", "updateRef"}

CallsOf(apis) == {i \in 1..Len(calls) : calls[i].api \in apis}

NoMutatingCall == CallsOf(MutatingApis) = {}

\* the failures of the provider in the current run
RunFaults == {f \in faults : f.run = runNo}

\* the current run was told by getTag that an existing tag object is missing
TagObjectReportedMissing == \E f \in RunFaults : f.api = "getTag" /\ f.answer = 404

\* the outcome of the parse loop for every input of the universe, arranged
\* by the entries of the list one after the other
RECURSIVE ParseResultsFrom(_, _)
ParseResultsFrom(tags, defaultRef) ==
  [outcome |-> ParseTags(tags, defaultRef),
   longer |-> IF Len(tags) < MaxTags
                THEN [tag \in TagEntries |->
                        ParseResultsFrom(Append(tags, tag), defaultRef)]
                ELSE <<>>]

ParseResults ==
  [defaultRef \in DefaultRefs |-> ParseResultsFrom(<<>>, defaultRef)]

RECURSIVE ParseResultAt(_, _, _)
ParseResultAt(results, tags, i) ==
  IF i > Len(tags) THEN results.outcome
  ELSE ParseResultAt(results.longer[tags[i]], tags, i + 1)

\* the desired state, as the inputs declare it
Parsed == ParseResultAt(ParseResults[inputs.defaultRef], inputs.tags, 1)

ParseOk == Parsed.error = NoError

DesiredNames == Range(Parsed.tagRefs.keys)

\* the desired tags that exist on the remote when the run starts
PreExisting == {n \in DesiredNames : n \in DOMAIN remote0 /\ remote0[n] # Absent}

\* both waves of planTagOperations have settled
AllInspected ==
  /\ phase \in {"inspecting", "executing", "finished"}
  /\ tagTask # <<>>
  /\ \A n \in DOMAIN tagTask : tagTask[n].st \in {"fulfilled", "rejected"}

\* ------------------------------------------------------------------------
\* C1: under the exists-policy 'fail', a desired tag that already exists on
\* the remote aborts the whole run: no createTag, createRef or updateRef
\* call is issued for any desired tag and the run never succeeds, whatever
\* else fails, unless getTag reports the tag object of an existing tag as
\* missing; and when the provider answers every call the run fails, with
\* "Tag '<name>' already exists." for a desired tag that exists.
\* ------------------------------------------------------------------------
C1_FailPolicyAbortsBeforeMutation ==
  (inputs.whenExists = "fail" /\ ParseOk /\ PreExisting # {})
    => /\ ~TagObjectReportedMissing
            => (NoMutatingCall /\ phase # "executing" /\ status # "succeeded")
       /\ (RunFaults = {} /\ status = "failed")
            => failure \in {TagAlreadyExists(n) : n \in PreExisting}
       /\ (RunFaults = {} /\ AllInspected) => status = "failed"

\* a run under 'fail' aborted on an existing tag while another desired tag,
\* absent from the remote, had been planned as a create
C1_Witness ==
  /\ inputs.whenExists = "fail"
  /\ status = "failed"
  /\ failure.kind = "TagAlreadyExists"
  /\ AllInspected
  /\ \E n \in DOMAIN tagTask :
        /\ tagTask[n].st = "fulfilled"
        /\ tagTask[n].op.operation = "create"
        /\ n \notin PreExisting

\* ------------------------------------------------------------------------
\* C2: no mutating call (createTag, createRef, updateRef) is issued before
\* every distinct ref is resolved and every desired tag name is inspected:
\* when one has been issued, every getCommit and every inspection of the run
\* has completed successfully and every read call stands before it in the
\* order of the calls; and a run that failed with an invalid tag spec, a
\* missing ref, a duplicate-tag conflict, a ref-resolution failure, a
\* tag-inspection failure or a tag-already-exists failure has issued none.
\* ------------------------------------------------------------------------
PlanningFailures ==
  {"InvalidTag", "MissingRef", "DuplicateTag", "RefResolutionFailed",
   "TagCheckFailed", "TagAlreadyExists"}

ReadApis == {"getCommit", "getRef", "getTag"}

C2_NoMutationBeforePlanningCompletes ==
  /\ ~NoMutatingCall
       => /\ DOMAIN refTask = Range(Parsed.tagRefs.vals)
          /\ \A r \in DOMAIN refTask : refTask[r] = "fulfilled"
          /\ DOMAIN tagTask = DesiredNames
          /\ \A n \in DOMAIN tagTask : tagTask[n].st = "fulfilled"
          /\ \A i \in CallsOf(MutatingApis) : \A j \in CallsOf(ReadApis) : j < i
  /\ (status = "failed" /\ failure.kind \in PlanningFailures) => NoMutatingCall

\* a mutating call was issued in a run with two desired tags on two refs
C2_Witness ==
  /\ ~NoMutatingCall
  /\ Cardinality(DOMAIN tagTask) = 2
  /\ Cardinality(DOMAIN refTask) = 2

\* ------------------------------------------------------------------------
\* C3: in dry-run mode no createTag, createRef or updateRef call is issued,
\* whatever the kind of the operations (create, update, skip, lightweight or
\* annotated), and the remote tag state stays what it was before the run.
\* ------------------------------------------------------------------------
C3_DryRunIssuesNoMutation ==
  inputs.dryRun => (NoMutatingCall /\ remote = remote0)

\* a dry run went through an annotated create and an update
C3_Witness ==
  /\ inputs.dryRun
  /\ status = "succeeded"
  /\ \E i, j \in 1..Len(plan) :
        /\ plan[i].operation = "create"
        /\ Truthy(plan[i].annotation)
        /\ plan[j].operation = "update"

EntryParts ==
  [tag \in TagEntries |->
     [tagName |-> Trim(OrElse(At(Split(tag), 1), EMPTY)),
      tagRef |-> Trim(OrElse(At(Split(tag), 2), EMPTY)),
      tagAnnotation |-> Trim(Join(Slice2(Split(tag))))]]

EntryName(tag) == EntryParts[tag].tagName

EntryOwnRef(tag) == EntryParts[tag].tagRef

EntryRef(tag) == OrElse(EntryOwnRef(tag), inputs.defaultRef)

EntryAnnotation(tag) == EntryParts[tag].tagAnnotation

\* the entry is blank, or has a name and an effective ref
EntryValid(tag) ==
  IF EntryName(tag) = EMPTY
    THEN EntryOwnRef(tag) = EMPTY /\ EntryAnnotation(tag) = EMPTY
    ELSE EntryRef(tag) # EMPTY

InputNames == {EntryName(inputs.tags[i]) : i \in 1..Len(inputs.tags)} \ {EMPTY}

\* entry j repeats the name of an earlier entry i with another effective ref
ConflictsWith(i, j) ==
  /\ i < j
  /\ EntryName(inputs.tags[j]) # EMPTY
  /\ EntryName(inputs.tags[i]) = EntryName(inputs.tags[j])
  /\ EntryRef(inputs.tags[i]) # EMPTY
  /\ EntryRef(inputs.tags[j]) # EMPTY
  /\ EntryRef(inputs.tags[i]) # EntryRef(inputs.tags[j])

Conflicting == {j \in 1..Len(inputs.tags) : \E i \in 1..Len(inputs.tags) : ConflictsWith(i, j)}

FirstConflict == CHOOSE j \in Conflicting : \A k \in Conflicting : j <= k

\* planTagOperations returned a plan to run()
PlanReturned ==
  \/ phase = "executing"
  \/ phase = "finished" /\ failure.kind \in {"none", "ActionFailed"}

AllAlreadyMatch(ops) ==
  \A i \in 1..Len(ops) : ops[i].operation = "skip" /\ ops[i].reason = "already_matches"

AllPolicySkips(ops) ==
  \A i \in 1..Len(ops) : ops[i].operation = "skip" /\ ops[i].reason = "when_exists_skip"

\* ------------------------------------------------------------------------
\* C5, as stated: when a run has completed successfully and is run again
\* with the same desired state and no outside change to the remote, the
\* second run plans Skip(already_matches) for every desired tag and issues
\* no mutating call.
\* ------------------------------------------------------------------------
C5_AsStated ==
  (runNo >= 2 /\ faults = {})
    => /\ NoMutatingCall
       /\ AllInspected
            => \A n \in DOMAIN tagTask :
                 /\ tagTask[n].st = "fulfilled"
                 /\ tagTask[n].op.operation = "skip"
                 /\ tagTask[n].op.reason = "already_matches"

\* ------------------------------------------------------------------------
\* C5, amended: when a run that is not a dry run has completed successfully
\* and is run again with the same desired state and no outside change to
\* the remote, the second run issues no mutating call and plans a Skip for
\* every desired tag: with reason already_matches under the policy
\* 'update', with the policy-skip reason under the policy 'skip'; under the
\* policy 'fail' the second run aborts, every desired tag existing now.
\* ------------------------------------------------------------------------
C5_Idempotence ==
  (runNo >= 2 /\ faults = {} /\ ~inputs.dryRun)
    => /\ NoMutatingCall
       /\ status # "failed" \/ inputs.whenExists = "fail"
       /\ \A n \in DOMAIN tagTask :
            tagTask[n].st = "fulfilled"
              => /\ tagTask[n].op.operation = "skip"
                 /\ tagTask[n].op.reason =
                      IF inputs.whenExists = "update"
                        THEN "already_matches" ELSE "when_exists_skip"
       /\ AllInspected
            => \A n \in DOMAIN tagTask :
                 tagTask[n].st =
                   IF inputs.whenExists = "fail" THEN "rejected" ELSE "fulfilled"
       /\ PlanReturned
            => /\ Len(plan) = Cardinality(InputNames)
               /\ inputs.whenExists = "update" => AllAlreadyMatch(plan)
               /\ inputs.whenExists = "skip" => AllPolicySkips(plan)

\* the second run, under 'update', skipped as already matching the two tags
\* that the first run had created and updated
C5_Witness ==
  /\ runNo = 2
  /\ inputs.whenExists = "update"
  /\ status = "succeeded"
  /\ Len(plan) = 2
  /\ AllAlreadyMatch(plan)
  /\ \E i, j \in 1..Len(prev.plan) :
        prev.plan[i].operation = "create" /\ prev.plan[j].operation = "update"
  /\ Cardinality({i \in 1..Len(prev.calls) : prev.calls[i].api \in RefMutatingApis}) = 2

\* ------------------------------------------------------------------------
\* C6: for every tag name, at most one createRef or updateRef call is issued
\* for that name in one run, also when the name stands several times in the
\* input list.
\* ------------------------------------------------------------------------
RefCallsFor(name) ==
  {i \in CallsOf(RefMutatingApis) : calls[i].ref \in {<<"refs/tags/">> \o name,
                                                       <<"tags/">> \o name}}

C6_AtMostOneRefMutationPerTag ==
  /\ \A name \in TagNames : Cardinality(RefCallsFor(name)) <= 1
  /\ Cardinality(CallsOf(RefMutatingApis)) <= Cardinality(InputNames)

\* a name that stands twice in the input list had its ref moved once
C6_Witness ==
  \E i, j \in 1..Len(inputs.tags) :
    /\ i < j
    /\ EntryName(inputs.tags[i]) = EntryName(inputs.tags[j])
    /\ Cardinality(RefCallsFor(EntryName(inputs.tags[i]))) = 1
    /\ status = "succeeded"

\* ------------------------------------------------------------------------
\* C7: when the list parses, planning issues exactly one getCommit call per
\* distinct effective ref of the desired tags, M calls for M distinct refs,
\* however many tags use them.
\* ------------------------------------------------------------------------
EffectiveRefs ==
  {EntryRef(inputs.tags[i]) :
     i \in {k \in 1..Len(inputs.tags) : EntryName(inputs.tags[k]) # EMPTY}}

C7_OneGetCommitPerDistinctRef ==
  LET issued == CallsOf({"getCommit"})
      refs == EffectiveRefs
  IN IF phase # "start" /\ ParseOk
       THEN /\ Cardinality(issued) = Cardinality(refs)
            /\ {calls[i].ref : i \in issued} = refs
       ELSE issued = {}

\* two desired tags on one ref: one getCommit call, planning done
C7_Witness ==
  /\ PlanReturned
  /\ Len(plan) = 2
  /\ Cardinality(EffectiveRefs) = 1
  /\ Cardinality(CallsOf({"getCommit"})) = 1

\* ------------------------------------------------------------------------
\* C8: when a tag name stands in the input list a second time with another
\* effective ref (explicit ref, else default ref), the entries before that
\* second occurrence being valid, the run fails with the duplicate-tag
\* conflict error that names the name and both refs, and no remote call,
\* read or write, is made.
\* ------------------------------------------------------------------------
C8_DuplicateWithDifferentRefFails ==
  ( /\ Conflicting # {}
    /\ \A k \in 1..(FirstConflict - 1) : EntryValid(inputs.tags[k])
    /\ phase # "start" )
    => /\ status = "failed"
       /\ phase = "finished"
       /\ calls = <<>>
       /\ \E i \in 1..Len(inputs.tags) :
            /\ ConflictsWith(i, FirstConflict)
            /\ failure = DuplicateTag(EntryName(inputs.tags[FirstConflict]),
                                       EntryRef(inputs.tags[i]),
                                       EntryRef(inputs.tags[FirstConflict]))

\* v1 on the default ref main, then v1:dev
C8_Witness ==
  /\ status = "failed"
  /\ failure = DuplicateTag(<<"v1">>, <<"main">>, <<"dev">>)
  /\ calls = <<>>

\* ------------------------------------------------------------------------
\* C9: a plan that planTagOperations returns holds exactly one operation per
\* distinct non-empty tag name of the input list; a name repeated with the
\* same effective ref gives one operation and no duplicate-tag error.
\* ------------------------------------------------------------------------
C9_OneOperationPerDistinctName ==
  /\ PlanReturned
       => /\ Len(plan) = Cardinality(InputNames)
          /\ {plan[i].name : i \in 1..Len(plan)} = InputNames
  /\ (Conflicting = {} /\ \A k \in 1..Len(inputs.tags) : EntryValid(inputs.tags[k])
       /\ phase # "start")
       => failure.kind \notin {"InvalidTag", "MissingRef", "DuplicateTag"}

\* the same name twice, once with the default ref and once with the same
\* ref made explicit or repeated: one operation
C9_Witness ==
  /\ PlanReturned
  /\ Len(inputs.tags) = 2
  /\ EntryName(inputs.tags[1]) = EntryName(inputs.tags[2])
  /\ Len(plan) = 1

\* ------------------------------------------------------------------------
\* C10: under the policy 'update', for a tag that exists, the planner gives
\* Skip(already_matches) exactly when the commit the tag dereferences to is
\* the desired commit and the annotation state matches (annotated with a
\* message equal to a non-empty desired annotation, or lightweight and the
\* desired annotation empty), and Update in every other case.  At equal
\* commit: lightweight to lightweight Skip, lightweight to annotated Update,
\* annotated to the same message Skip, annotated to another message Update,
\* annotated to lightweight Update.
\* ------------------------------------------------------------------------
DesiredCommit(name) == CommitOf(ObjGet(Parsed.tagRefs, name))

DesiredAnnotation(name) ==
  OrElse(ObjGet(Parsed.tagAnnotations, name), inputs.annotation)

RemoteCommit(t) == IF t.type = "tag" THEN t.sha.object ELSE t.sha

C10_UpdatePolicyDecision ==
  (inputs.whenExists = "update" /\ RunFaults = {})
    => \A n \in DOMAIN tagTask :
         (tagTask[n].st = "fulfilled" /\ remote0[n] # Absent)
           => LET e == remote0[n]
                  op == tagTask[n].op
                  ann == DesiredAnnotation(n)
                  sameCommit == RemoteCommit(e) = DesiredCommit(n)
                  sameState ==
                    \/ e.type = "tag" /\ ann # EMPTY /\ e.sha.message = ann
                    \/ e.type = "commit" /\ ann = EMPTY
              IN /\ op.operation = IF sameCommit /\ sameState THEN "skip" ELSE "update"
                 /\ op.operation = "skip" => op.reason = "already_matches"
                 /\ sameCommit =>
                      /\ (e.type = "commit" /\ ann = EMPTY) => op.operation = "skip"
                      /\ (e.type = "commit" /\ ann # EMPTY) => op.operation = "update"
                      /\ (e.type = "tag" /\ ann # EMPTY /\ e.sha.message = ann)
                           => op.operation = "skip"
                      /\ (e.type = "tag" /\ ann # EMPTY /\ e.sha.message # ann)
                           => op.operation = "update"
                      /\ (e.type = "tag" /\ ann = EMPTY) => op.operation = "update"

\* a lightweight tag on the desired commit, an annotation desired: Update
C10_Witness ==
  /\ inputs.whenExists = "update"
  /\ RunFaults = {}
  /\ \E n \in DOMAIN tagTask :
        /\ tagTask[n].st = "fulfilled"
        /\ remote0[n].type = "commit"
        /\ remote0[n].sha = DesiredCommit(n)
        /\ DesiredAnnotation(n) # EMPTY
        /\ tagTask[n].op.operation = "update"

\* ------------------------------------------------------------------------
\* C11: the reasons of an Update hold the commit reason "commit SHA <new>
\* (was <old>)" exactly when the commit differs, in first place, followed by
\* one annotation reason exactly when the annotation state differs:
\* 'annotation message changed' (annotated, staying annotated, other text),
\* 'adding annotation' (lightweight, becoming annotated) or 'removing
\* annotation' (annotated, becoming lightweight), never two of them.
\* ------------------------------------------------------------------------
ExpectedReasons(name) ==
  LET e == remote0[name]
      ann == DesiredAnnotation(name)
      commitPart ==
        IF RemoteCommit(e) # DesiredCommit(name)
          THEN <<CommitReason(DesiredCommit(name), RemoteCommit(e))>> ELSE <<>>
      annotationPart ==
        IF e.type = "tag" /\ ann # EMPTY /\ e.sha.message # ann
          THEN <<AnnotationChanged>>
        ELSE IF e.type = "commit" /\ ann # EMPTY THEN <<AddingAnnotation>>
        ELSE IF e.type = "tag" /\ ann = EMPTY THEN <<RemovingAnnotation>>
        ELSE <<>>
  IN commitPart \o annotationPart

AnnotationReasons == {AnnotationChanged, AddingAnnotation, RemovingAnnotation}

C11_UpdateReasons ==
  \A n \in DOMAIN tagTask :
    (tagTask[n].st = "fulfilled" /\ tagTask[n].op.operation = "update")
      => LET r == tagTask[n].op.reasons
         IN /\ r = ExpectedReasons(n)
            /\ Len(r) \in {1, 2}
            /\ Cardinality({i \in 1..Len(r) : r[i] \in AnnotationReasons}) <= 1
            /\ \A i \in 1..Len(r) : r[i] \notin AnnotationReasons => i = 1

\* one Update moves a lightweight tag to another commit and annotates it (two
\* reasons), another one changes the message of an annotated tag
C11_Witness ==
  \E n, m \in DOMAIN tagTask :
    /\ tagTask[n].st = "fulfilled"
    /\ tagTask[n].op.operation = "update"
    /\ tagTask[n].op.reasons =
         <<CommitReason(Commit("s2"), Commit("s1")), AddingAnnotation>>
    /\ tagTask[m].st = "fulfilled"
    /\ tagTask[m].op.operation = "update"
    /\ tagTask[m].op.reasons = <<AnnotationChanged>>

\* ------------------------------------------------------------------------
\* C12: a desired tag that does not exist on the remote is planned as Create
\* under every policy; under the policy 'skip' a tag that exists is planned
\* as Skip with the policy-skip reason, whatever its commit and annotation,
\* and is not mutated.
\* ------------------------------------------------------------------------
C12_CreateWhenAbsentSkipUnderSkipPolicy ==
  /\ \A n \in DOMAIN tagTask :
       tagTask[n].st = "fulfilled"
         => /\ remote0[n] = Absent
                 => /\ tagTask[n].op.operation = "create"
                    /\ tagTask[n].op.sha = DesiredCommit(n)
                    /\ tagTask[n].op.annotation = DesiredAnnotation(n)
            /\ (remote0[n] # Absent /\ inputs.whenExists = "skip"
                 /\ ~TagObjectReportedMissing)
                 => /\ tagTask[n].op.operation = "skip"
                    /\ tagTask[n].op.reason = "when_exists_skip"
  /\ inputs.whenExists = "skip"
       => \A n \in TagNames :
            remote0[n] # Absent
              => /\ remote[n] = remote0[n]
                 /\ ~TagObjectReportedMissing => RefCallsFor(n) = {}

\* under 'skip': one tag did not exist and was created, the other one exists
\* on another commit than the desired one and was skipped
C12_Witness ==
  /\ inputs.whenExists = "skip"
  /\ status = "succeeded"
  /\ \E n, m \in DOMAIN tagTask :
        /\ remote0[n] = Absent
        /\ tagTask[n].op.operation = "create"
        /\ remote[n] # Absent
        /\ remote0[m] # Absent
        /\ RemoteCommit(remote0[m]) # DesiredCommit(m)
        /\ tagTask[m].op.operation = "skip"
        /\ remote[m] = remote0[m]

\* ------------------------------------------------------------------------
\* C13: for a Create or Update with a non-empty annotation the executor
\* first issues createTag (message the annotation, object the desired commit,
\* type commit) and only then the ref mutation, whose sha is the tag object
\* that createTag returned and not the commit; when createTag fails no ref
\* mutation is issued for the tag.  With an empty annotation no createTag is
\* issued and the ref mutation's sha is the commit.
\* ------------------------------------------------------------------------
PlannedFor(name) == CHOOSE op \in Range(plan) : op.name = name

CreateTagCallsFor(name) ==
  {i \in CallsOf({"createTag"}) : calls[i].tag = name}

C13_AnnotatedTagObjectBeforeRef ==
  \A n \in {plan[i].name : i \in 1..Len(plan)} :
    LET op == PlannedFor(n)
    IN /\ op.operation = "skip" => CreateTagCallsFor(n) = {}
       /\ op.operation # "skip" =>
            IF op.annotation # EMPTY
              THEN /\ Cardinality(CreateTagCallsFor(n)) <= 1
                   /\ \A i \in CreateTagCallsFor(n) :
                        calls[i] = CreateTagCall(n, op.annotation, DesiredCommit(n))
                   /\ \A i \in RefCallsFor(n) :
                        /\ \E j \in CreateTagCallsFor(n) : j < i
                        /\ calls[i].sha = TagObject(n, op.annotation, DesiredCommit(n))
                        /\ calls[i].sha # DesiredCommit(n)
                        /\ calls[i].sha \in tagObjects
                   /\ (\E f \in RunFaults : f.api = "createTag" /\ f.key = n)
                        => RefCallsFor(n) = {}
              ELSE /\ CreateTagCallsFor(n) = {}
                   /\ \A i \in RefCallsFor(n) : calls[i].sha = DesiredCommit(n)

\* an annotated Create and a lightweight Update in one run, both executed
C13_Witness ==
  /\ status = "succeeded"
  /\ \E n, m \in {plan[i].name : i \in 1..Len(plan)} :
        /\ PlannedFor(n).operation = "create"
        /\ PlannedFor(n).annotation # EMPTY
        /\ Cardinality(CreateTagCallsFor(n)) = 1
        /\ Cardinality(RefCallsFor(n)) = 1
        /\ PlannedFor(m).operation = "update"
        /\ PlannedFor(m).annotation = EMPTY
        /\ Cardinality(RefCallsFor(m)) = 1

\* ------------------------------------------------------------------------
\* C14: outside dry-run, executing a Create issues exactly one createRef, on
\* refs/tags/<name>, and no updateRef; executing an Update issues exactly one
\* updateRef, on tags/<name> and with force = true, and no createRef;
\* executing a Skip issues no remote call at all.  Stated on the steps of the
\* executor: a step of a Skip adds no call; a step of a Create or Update adds
\* one call, the annotated tag object or the ref call of its kind, and the
\* operation is done with its ref call, the only one for the name.
\* ------------------------------------------------------------------------
C14_ExecutorStep ==
  (Executing /\ ~inputs.dryRun)
    => LET op == plan[next]
           new == SubSeq(calls', Len(calls) + 1, Len(calls'))
           done == next' = next + 1
           RefCalls(api) ==
             {i \in 1..Len(calls') :
                calls'[i].api = api /\ Tail(calls'[i].ref) = op.name}
       IN /\ SubSeq(calls', 1, Len(calls)) = calls
          /\ op.operation = "skip" => (new = <<>> /\ done)
          /\ op.operation = "create"
               => /\ Len(new) = 1
                  /\ new[1].api \in {"createTag", "createRef"}
                  /\ new[1].api = "createRef"
                       => new[1].ref = <<"refs/tags/">> \o op.name
                  /\ done => /\ new[1].api = "createRef"
                              /\ Cardinality(RefCalls("createRef")) = 1
                  /\ RefCalls("updateRef") = {}
          /\ op.operation = "update"
               => /\ Len(new) = 1
                  /\ new[1].api \in {"createTag", "updateRef"}
                  /\ new[1].api = "updateRef"
                       => /\ new[1].ref = <<"tags/">> \o op.name
                          /\ new[1].force = TRUE
                  /\ done => /\ new[1].api = "updateRef"
                              /\ Cardinality(RefCalls("updateRef")) = 1
                  /\ RefCalls("createRef") = {}

C14_CreateUpdateSkipCalls == [][C14_ExecutorStep]_vars

\* a run that created one tag and moved another one, with one ref call each
C14_Witness ==
  /\ status = "succeeded"
  /\ ~inputs.dryRun
  /\ Len(plan) = 2
  /\ \E i, j \in 1..Len(plan) :
        /\ plan[i].operation = "create"
        /\ plan[j].operation = "update"
        /\ \E k \in CallsOf({"createRef"}) :
              calls[k].ref = <<"refs/tags/">> \o plan[i].name
        /\ \E k \in CallsOf({"updateRef"}) :
              calls[k].ref = <<"tags/">> \o plan[j].name /\ calls[k].force
  /\ Cardinality(CallsOf(RefMutatingApis)) = 2

\* ------------------------------------------------------------------------
\* C15: the inspection dereferences before the comparison.  For a
\* lightweight tag the existing commit is the ref target and no getTag call
\* is made; for an annotated tag exactly one getTag call is made, on the ref
\* target, and the existing commit and message are those of the tag object,
\* so that the tag object is never compared with the desired commit.
\* ------------------------------------------------------------------------
GetRefAnswered(name) ==
  /\ tagTask[name].st # "getRef"
  /\ ~\E f \in RunFaults : f.api = "getRef" /\ f.key = name

GetTagCallsFor(name) ==
  {i \in CallsOf({"getTag"}) : calls[i].tag_sha = remote0[name].sha}

C15_InspectionDereferences ==
  /\ Cardinality(CallsOf({"getTag"}))
       = Cardinality({n \in DOMAIN tagTask :
                        remote0[n].type = "tag" /\ GetRefAnswered(n)})
  /\ \A n \in DOMAIN tagTask :
       /\ (remote0[n].type = "tag" /\ GetRefAnswered(n))
            => Cardinality(GetTagCallsFor(n)) = 1
       /\ (tagTask[n].st = "fulfilled" /\ tagTask[n].op.operation # "create")
            => LET op == tagTask[n].op
                   e == remote0[n]
               IN /\ op.existingIsAnnotated = (e.type = "tag")
                  /\ op.operation = "update"
                       => /\ op.existingSHA = RemoteCommit(e)
                          /\ "tag" \notin DOMAIN op.existingSHA
                          /\ RemoteCommit(e) = DesiredCommit(n)
                               => \A i \in 1..Len(op.reasons) :
                                    op.reasons[i].reason # "commit SHA"
                  /\ (inputs.whenExists = "update" /\ e.type = "tag"
                      /\ e.sha.object = DesiredCommit(n)
                      /\ e.sha.message = DesiredAnnotation(n))
                       => op.operation = "skip"

\* an annotated tag on the desired commit with the desired message is found
\* to match after one getTag call; a lightweight tag needs none
C15_Witness ==
  /\ inputs.whenExists = "update"
  /\ Cardinality(CallsOf({"getTag"})) = 1
  /\ \E n, m \in DOMAIN tagTask :
        /\ remote0[n].type = "tag"
        /\ tagTask[n].st = "fulfilled"
        /\ tagTask[n].op.operation = "skip"
        /\ tagTask[n].op.reason = "already_matches"
        /\ remote0[m].type = "commit"
        /\ tagTask[m].st = "fulfilled"
        /\ tagTask[m].op.operation = "update"
        /\ tagTask[m].op.existingSHA = remote0[m].sha

\* ------------------------------------------------------------------------
\* C16: in the existence check an answer of status 404 is not an error and
\* leads to a planned Create; a failure with another status aborts the whole
\* run with "Failed to check if tag '<name>' exists", and no mutating call
\* is issued for any tag.
\* ------------------------------------------------------------------------
InspectionFaults ==
  {f \in RunFaults : f.api \in {"getRef", "getTag"} /\ f.answer # 404}

AnsweredNotFound(name) ==
  \/ remote0[name] = Absent /\ GetRefAnswered(name)
  \/ \E f \in RunFaults : f.api = "getTag" /\ f.key = name /\ f.answer = 404

C16_NotFoundIsCreateOtherFailureAborts ==
  /\ InspectionFaults # {}
       => /\ status = "failed"
          /\ phase = "inspecting"
          /\ plan = <<>>
          /\ NoMutatingCall
          /\ failure \in {TagCheckFailed(f.key) : f \in InspectionFaults}
                \cup (IF inputs.whenExists = "fail"
                        THEN {TagAlreadyExists(n) : n \in PreExisting} ELSE {})
  /\ InspectionFaults = {} => failure.kind # "TagCheckFailed"
  /\ \A n \in DOMAIN tagTask :
       AnsweredNotFound(n)
         => /\ tagTask[n].st = "fulfilled"
            /\ tagTask[n].op.operation = "create"

\* one tag was answered 404 and planned as Create, the check of the other
\* one failed with another status: the run failed and nothing was mutated
C16_Witness ==
  /\ status = "failed"
  /\ \E n, m \in DOMAIN tagTask :
        /\ remote0[n] = Absent
        /\ tagTask[n].st = "fulfilled"
        /\ tagTask[n].op.operation = "create"
        /\ failure = TagCheckFailed(m)
        /\ tagTask[m].st = "rejected"
  /\ NoMutatingCall

\* ------------------------------------------------------------------------
\* C17: when the resolution of a distinct ref fails the whole run aborts
\* with "Failed to resolve ref '<ref>' to a SHA", no getRef call is issued
\* and no mutating call is issued for any tag, the tags whose own ref was
\* resolved included.
\* ------------------------------------------------------------------------
ResolutionFaults == {f \in RunFaults : f.api = "getCommit"}

C17_RefResolutionFailureAborts ==
  /\ ResolutionFaults # {}
       => /\ status = "failed"
          /\ failure \in {RefResolutionFailed(f.key) : f \in ResolutionFaults}
          /\ CallsOf({"getRef", "getTag"}) = {}
          /\ NoMutatingCall
          /\ tagTask = <<>>
          /\ plan = <<>>
          /\ remote = remote0
  /\ ResolutionFaults = {} => failure.kind # "RefResolutionFailed"

\* two tags on two refs: one ref was resolved, the other one was not
C17_Witness ==
  /\ status = "failed"
  /\ Cardinality(InputNames) = 2
  /\ \E r1, r2 \in DOMAIN refTask :
        /\ refTask[r1] = "fulfilled"
        /\ refTask[r2] = "rejected"
        /\ failure = RefResolutionFailed(r2)
  /\ CallsOf({"getRef"}) = {}

\* ------------------------------------------------------------------------
\* C18: entries of the list that are entirely empty are dropped silently:
\* they raise no error, give no operation and no remote call, and the other
\* entries are parsed and planned as if the empty entries were not there.
\* ------------------------------------------------------------------------
WithoutBlanks(tags) ==
  LET NotBlank(t) == t # EMPTY
  IN SelectSeq(tags, NotBlank)

\* the outcome of the parse loop on every list of the universe, its empty
\* entries taken out
BlankFreeResults ==
  [tags \in TagLists, defaultRef \in DefaultRefs |->
     ParseTags(WithoutBlanks(tags), defaultRef)]

NamesNoCall(name) ==
  /\ \A i \in 1..Len(plan) : plan[i].name # name
  /\ \A i \in 1..Len(calls) :
       /\ calls[i].api \in {"getRef", "createRef", "updateRef"}
            => Tail(calls[i].ref) # name
       /\ calls[i].api = "createTag" => calls[i].tag # name

C18_BlankEntriesDropped ==
  /\ failure # InvalidTag(EMPTY)
  /\ NamesNoCall(EMPTY)
  /\ phase = "start"
       => Parsed = BlankFreeResults[inputs.tags, inputs.defaultRef]
  /\ phase = "resolving"
       => LET p == BlankFreeResults[inputs.tags, inputs.defaultRef]
          IN /\ p.error = NoError
             /\ tagRefs = p.tagRefs
             /\ tagAnnotations = p.tagAnnotations
             /\ uniqueRefs = p.uniqueRefs
  /\ (PlanReturned /\ EMPTY \in Range(inputs.tags))
       => Len(plan) < Len(inputs.tags)

\* a list with an empty entry and a tag: the tag was created, nothing else
C18_Witness ==
  /\ EMPTY \in Range(inputs.tags)
  /\ Len(inputs.tags) = 2
  /\ status = "succeeded"
  /\ Len(plan) = 1
  /\ Len(created) = 1
  /\ Cardinality(CallsOf({"getRef"})) = 1

\* the first entry at which the parse loop throws
Faulty == {k \in 1..Len(inputs.tags) : ~EntryValid(inputs.tags[k])} \cup Conflicting

ParseFailed ==
  /\ status = "failed"
  /\ phase = "finished"
  /\ failure.kind \in {"InvalidTag", "MissingRef", "DuplicateTag"}
  /\ calls = <<>>
  /\ plan = <<>>
  /\ remote = remote0

\* ------------------------------------------------------------------------
\* C19: an entry with an empty name and a non-empty ref or annotation
\* (':main', '::text') makes the run abort before any remote call, wherever
\* it stands in the list, so that valid entries before it are not created or
\* updated; the failure is "Invalid tag: '<entry>'", the entries before it
\* being valid.
\* ------------------------------------------------------------------------
Unnamed ==
  {k \in 1..Len(inputs.tags) :
     /\ EntryName(inputs.tags[k]) = EMPTY
     /\ EntryOwnRef(inputs.tags[k]) # EMPTY \/ EntryAnnotation(inputs.tags[k]) # EMPTY}

UnnamedEntries ==
  { <<":", "main">>, <<":", ":", "text">>, <<" ", ":", "main">>,
    <<":", "main", ":", "text">>, <<":", " ", ":", "a", ":", "b">> }

\* the parse loop on the forms of an entry without a name, alone, behind a
\* valid entry and ahead of one
UnnamedEntriesRejected ==
  \A t \in UnnamedEntries, d \in DefaultRefs :
    /\ ParseTags(<<t>>, d).error = InvalidTag(t)
    /\ ParseTags(<< <<"v1", ":", "dev">>, t >>, d).error = InvalidTag(t)
    /\ ParseTags(<< t, <<"v1", ":", "dev">> >>, d).error = InvalidTag(t)

C19_UnnamedEntryAborts ==
  /\ UnnamedEntriesRejected
  /\ (phase # "start" /\ Unnamed # {})
       => /\ ParseFailed
          /\ (\A k \in Faulty : \E u \in Unnamed : u <= k)
               => \E u \in Unnamed :
                    /\ \A k \in Faulty : u <= k
                    /\ failure = InvalidTag(inputs.tags[u])
  /\ failure.kind = "InvalidTag" => Unnamed # {}

\* a valid entry for a tag that does not exist, then ':main': nothing is
\* created
C19_Witness ==
  /\ Len(inputs.tags) = 2
  /\ EntryName(inputs.tags[1]) = <<"v1">>
  /\ EntryValid(inputs.tags[1])
  /\ remote0[<<"v1">>] = Absent
  /\ failure = InvalidTag(<<":", "main">>)
  /\ status = "failed"
  /\ calls = <<>>
  /\ remote[<<"v1">>] = Absent

\* ------------------------------------------------------------------------
\* C20: the effective ref of a tag is its own ref when that is not empty,
\* else the default ref ('tag:' and 'tag::annotation' use the default ref);
\* when both are empty the run aborts before any remote call, with "Missing
\* ref", the entries before it being valid.
\* ------------------------------------------------------------------------
RefLess ==
  {k \in 1..Len(inputs.tags) :
     /\ EntryName(inputs.tags[k]) # EMPTY
     /\ EntryOwnRef(inputs.tags[k]) = EMPTY
     /\ inputs.defaultRef = EMPTY}

DefaultRefEntries ==
  { <<"v1">>, <<"v1", ":">>, <<"v1", ":", " ">>, <<"v1", ":", ":", "note">>,
    <<"v1", ":", " ", ":", "a", ":", "b">> }

\* the parse loop on the forms of an entry without a ref of its own, and on
\* an entry with one
EffectiveRefForms ==
  /\ \A t \in DefaultRefEntries :
       /\ ParseTags(<<t>>, <<"main">>).error = NoError
       /\ ParseTags(<<t>>, <<"main">>).tagRefs = ObjSet(EmptyObj, <<"v1">>, <<"main">>)
       /\ ParseTags(<<t>>, <<"main">>).uniqueRefs = << <<"main">> >>
       /\ ParseTags(<<t>>, EMPTY).error = MissingRef
  /\ \A d \in DefaultRefs :
       /\ ParseTags(<< <<"v1", ":", "dev">> >>, d).error = NoError
       /\ ParseTags(<< <<"v1", ":", "dev">> >>, d).tagRefs
            = ObjSet(EmptyObj, <<"v1">>, <<"dev">>)

C20_EffectiveRef ==
  /\ EffectiveRefForms
  /\ \A i \in 1..Len(plan) :
       \A k \in 1..Len(inputs.tags) :
         EntryName(inputs.tags[k]) = plan[i].name
           => /\ plan[i].ref =
                   IF EntryOwnRef(inputs.tags[k]) # EMPTY
                     THEN EntryOwnRef(inputs.tags[k]) ELSE inputs.defaultRef
              /\ plan[i].ref # EMPTY
              /\ plan[i].sha = CommitOf(plan[i].ref)
  /\ (phase # "start" /\ RefLess # {})
       => /\ ParseFailed
          /\ (\A k \in Faulty : \E u \in RefLess : u <= k)
               => failure = MissingRef
  /\ failure = MissingRef => RefLess # {}

\* 'v1:dev' is planned on its own ref and 'v2::old' on the default ref
C20_Witness ==
  /\ PlanReturned
  /\ inputs.defaultRef = <<"main">>
  /\ \E i, j \in 1..Len(plan) :
        /\ plan[i].name = <<"v1">>
        /\ plan[i].ref = <<"dev">>
        /\ plan[j].name = <<"v2">>
        /\ plan[j].ref = <<"main">>
        /\ <<"v2", ":", ":", "old">> \in Range(inputs.tags)

\* ------------------------------------------------------------------------
\* Vocabulary of the properties of InputsSpec
\* ------------------------------------------------------------------------
\* getInputs has returned the Inputs
InputsRead == inputs # NoInputs

\* getInputs has just returned them: planTagOperations is about to be called
InputsReturned == InputsRead /\ phase = "start"

\* the positions of the colons of an entry
Colons(s) == {i \in 1..Len(s) : s[i] = COLON}

\* the text of an entry before its first colon (the whole entry without one)
BeforeFirstColon(s) ==
  IF Colons(s) = {} THEN s
  ELSE SubSeq(s, 1, (CHOOSE i \in Colons(s) : \A j \in Colons(s) : i <= j) - 1)

\* the text of an entry after its second colon
AfterSecondColon(s) ==
  LET c2 == CHOOSE i \in Colons(s) : Cardinality({j \in Colons(s) : j < i}) = 1
  IN SubSeq(s, c2 + 1, Len(s))

\* the name an entry declares
NameOf(s) == Trim(BeforeFirstColon(s))

\* the annotation an entry declares: the text after its second colon,
\* without the whitespace around it; empty when there is none
AnnotationOf(s) ==
  IF Cardinality(Colons(s)) >= 2 THEN Trim(AfterSecondColon(s)) ELSE EMPTY

\* ------------------------------------------------------------------------
\* C21: only the first two colons of an entry are structural.  An entry
\* 'name:ref:rest' is not rejected for its colons, and the annotation of the
\* tag is the text after the second colon (without the whitespace around
\* it), every further colon kept: it is the annotation the planner records,
\* the one of the planned operation and the message of the tag object.
\* ------------------------------------------------------------------------
ColonForms ==
  { <<"v1", ":", "main", ":", "Release", ":", " ", "version", " ", "1.0.0">>,
    <<"v1", ":", "main", ":", "a", ":", "b", ":", "c">>,
    <<"v1", ":", "main", ":", ":", "x">>,
    <<"v1", ":", "main", ":", "x", ":">>,
    <<"v1", ":", ":", "a", ":", "b">>,
    <<"v1", ":", "main", ":", " ", "a", " ", ":", "b", " ">> }

\* the parse loop on entries with colons in the annotation
ColonFormsKept ==
  \A t \in ColonForms :
    LET p == ParseTags(<<t>>, <<"main">>)
    IN /\ p.error = NoError
       /\ p.tagRefs = ObjSet(EmptyObj, <<"v1">>, <<"main">>)
       /\ p.tagAnnotations = ObjSet(EmptyObj, <<"v1">>, AnnotationOf(t))
       /\ Cardinality(Colons(AnnotationOf(t))) = Cardinality(Colons(t)) - 2
       /\ (Head(AfterSecondColon(t)) # SPACE /\ t[Len(t)] # SPACE)
            => OwnGet(p.tagAnnotations, <<"v1">>) = AfterSecondColon(t)

\* the entries with a name and an annotation of their own
AnnotatedEntries ==
  {i \in 1..Len(inputs.tags) :
     Truthy(NameOf(inputs.tags[i])) /\ Truthy(AnnotationOf(inputs.tags[i]))}

\* the last of the entries that give the tag `name` an annotation of its own
LastAnnotated(name) ==
  {i \in AnnotatedEntries :
     /\ NameOf(inputs.tags[i]) = name
     /\ \A j \in AnnotatedEntries : NameOf(inputs.tags[j]) = name => j <= i}

EntriesOf(name) ==
  {k \in 1..Len(inputs.tags) : EntryName(inputs.tags[k]) = name}

\* the annotations the entries of the tag give it
OwnAnnotations(name) == {EntryAnnotation(inputs.tags[k]) : k \in EntriesOf(name)}

EffectiveAnnotation(name) ==
  LET own == CHOOSE a \in OwnAnnotations(name) : TRUE
  IN IF own # EMPTY THEN own ELSE inputs.annotation

C22_EffectiveAnnotation ==
  \A n \in DOMAIN tagTask :
    Cardinality(OwnAnnotations(n)) = 1 =>
      LET ann == EffectiveAnnotation(n)
          e == remote0[n]
      IN /\ (tagTask[n].st = "fulfilled" /\ tagTask[n].op.operation # "skip")
              => tagTask[n].op.annotation = ann
         /\ (tagTask[n].st = "fulfilled" /\ inputs.whenExists = "update"
               /\ RunFaults = {} /\ e # Absent /\ RemoteCommit(e) = DesiredCommit(n))
              => (tagTask[n].op.operation = "skip"
                    <=> \/ e.type = "tag" /\ ann # EMPTY /\ e.sha.message = ann
                        \/ e.type = "commit" /\ ann = EMPTY)
         /\ \A i \in CreateTagCallsFor(n) : calls[i].message = ann
         /\ ann = EMPTY => CreateTagCallsFor(n) = {}
         /\ \A i \in RefCallsFor(n) :
              calls[i].sha = IF ann # EMPTY
                               THEN TagObject(n, ann, DesiredCommit(n))
                               ELSE DesiredCommit(n)

\* 'v2::old' and an entry of v1 without an annotation, the default
\* annotation being 'msg': the tag object of v2 says 'old', the one of v1
\* says 'msg'
C22_Witness ==
  /\ inputs.annotation = <<"msg">>
  /\ <<"v2", ":", ":", "old">> \in Range(inputs.tags)
  /\ \E i \in CreateTagCallsFor(<<"v2">>) : calls[i].message = <<"old">>
  /\ \E i \in CreateTagCallsFor(<<"v1">>) : calls[i].message = <<"msg">>
  /\ \E i \in RefCallsFor(<<"v2">>) : calls[i].sha.message = <<"old">>
  /\ \E i \in RefCallsFor(<<"v1">>) : calls[i].sha.message = <<"msg">>

\* ------------------------------------------------------------------------
\* C23: a tag named more than once with the same effective ref is no
\* conflict, whatever the annotations of its entries are, and the annotation
\* given last wins: the annotation used for the tag is the one of the last
\* of its entries that has an annotation of its own, and the default
\* annotation when none of them has one.
\* (The one conflict the lists explored run into is that of C40, on a name
\* that Object.prototype defines.)
\* ------------------------------------------------------------------------
\* the entries of the list that name the tag
OccurrencesOf(name) ==
  {i \in 1..Len(inputs.tags) : NameOf(inputs.tags[i]) = name}

LastOf(S) == CHOOSE i \in S : \A j \in S : j <= i

\* the claim as it is stated: the annotation used is the effective
\* annotation of the last entry that names the tag
C23_AsStated ==
  InputsRead =>
    \A n \in DOMAIN tagTask :
      (tagTask[n].st = "fulfilled" /\ tagTask[n].op.operation # "skip")
        => tagTask[n].op.annotation
             = OrElse(AnnotationOf(inputs.tags[LastOf(OccurrencesOf(n))]),
                      inputs.annotation)

\* the parse loop on lists that name v1 several times
RepeatedNameForms ==
  LET a == <<"v1", ":", ":", "a">>
      b == <<"v1", ":", "main", ":", "b">>
      bare == <<"v1">>
      Recorded(tags) == ParseTags(tags, <<"main">>).tagAnnotations
  IN /\ \A tags \in { <<a, bare>>, <<bare, a>>, <<b, a>>, <<b, a, bare>>,
                      <<a, bare, bare>> } :
          /\ ParseTags(tags, <<"main">>).error = NoError
          /\ Recorded(tags) = ObjSet(EmptyObj, <<"v1">>, <<"a">>)
     /\ Recorded(<<a, b>>) = ObjSet(EmptyObj, <<"v1">>, <<"b">>)
     /\ Recorded(<<a, bare, b, bare>>) = ObjSet(EmptyObj, <<"v1">>, <<"b">>)
     /\ Recorded(<<bare, bare>>) = EmptyObj

C23_LastAnnotationGivenWins ==
  /\ RepeatedNameForms
  /\ InputsRead =>
       /\ failure.kind = "DuplicateTag" => failure.name \in ProtoProps
       /\ \A n \in DOMAIN tagTask :
            LET given_ == LastAnnotated(n)
                ann == IF given_ # {}
                         THEN AnnotationOf(inputs.tags[LastOf(given_)])
                         ELSE inputs.annotation
            IN /\ OccurrencesOf(n) # {}
               /\ (tagTask[n].st = "fulfilled" /\ tagTask[n].op.operation # "skip")
                    => tagTask[n].op.annotation = ann
               /\ \A i \in CreateTagCallsFor(n) : calls[i].message = ann

\* 'v2::new,v2::old,v2' with the default annotation 'msg': v2 is created
\* with the annotation 'old'
C23_Witness ==
  /\ InputsRead
  /\ inputs.annotation = <<"msg">>
  /\ inputs.tags = << <<"v2", ":", ":", "new">>, <<"v2", ":", ":", "old">>, <<"v2">> >>
  /\ Len(plan) = 1
  /\ plan[1].operation = "create"
  /\ plan[1].annotation = <<"old">>
  /\ RemoteGet(<<"v2">>) = Annotated(TagObject(<<"v2">>, <<"old">>, Commit("s1")))

\* ------------------------------------------------------------------------
\* C24: the order of the plan and of the outputs.  The names are read back
\* with Object.keys(tagRefs), which lists the integer-like names first, in
\* ascending order, and only then the other names in the order they were
\* first assigned.
\* ------------------------------------------------------------------------
\* the names of the entries of a list, each at its first occurrence
RECURSIVE FirstOccurrences(_, _)
FirstOccurrences(tags, seen) ==
  IF tags = <<>> THEN <<>>
  ELSE IF NameOf(Head(tags)) = EMPTY \/ NameOf(Head(tags)) \in seen
    THEN FirstOccurrences(Tail(tags), seen)
  ELSE <<NameOf(Head(tags))>>
         \o FirstOccurrences(Tail(tags), seen \cup {NameOf(Head(tags))})

PlanNames == [i \in 1..Len(plan) |-> plan[i].name]

\* list holds its names in the order they have in order
InOrderOf(list, order) ==
  LET Listed(n) == n \in Range(list)
  IN list = SelectSeq(order, Listed)

\* C24 (as the claim states it): the plan run() receives lists the names in
\* the order of their first occurrence in the input list (explicit entries,
\* then derived ones), whatever the names are, and so do the outputs created,
\* updated and skipped.
C24_AsStated ==
  InputsRead /\ PlanReturned =>
    /\ PlanNames = FirstOccurrences(inputs.tags, {})
    /\ outputs.set =>
         /\ InOrderOf(outputs.created, FirstOccurrences(inputs.tags, {}))
         /\ InOrderOf(outputs.updated, FirstOccurrences(inputs.tags, {}))
         /\ InOrderOf(outputs.skipped, FirstOccurrences(inputs.tags, {}))

\* ------------------------------------------------------------------------
\* C25: the outputs of a successful run that is not a dry run
\* ------------------------------------------------------------------------
\* how many times name is listed
Occurrences(list, name) == Cardinality({i \in 1..Len(list) : list[i] = name})

\* the output that reports an operation of this kind
OutputFor(kind) ==
  CASE kind = "create" -> outputs.created
    [] kind = "update" -> outputs.updated
    [] kind = "skip" -> outputs.skipped

RECURSIVE Pieces(_)
Pieces(s) ==
  IF \A i \in 1..Len(s) : s[i] \notin {COMMA, NEWLINE} THEN <<s>>
  ELSE LET i == CHOOSE k \in 1..Len(s) :
                  /\ s[k] \in {COMMA, NEWLINE}
                  /\ \A j \in 1..(k - 1) : s[j] \notin {COMMA, NEWLINE}
       IN <<SubSeq(s, 1, i - 1)>> \o Pieces(SubSeq(s, i + 1, Len(s)))

\* the template getInputs hands to deriveTags, rendered for the version given
TemplateGiven == OrElse(given.deriveFromTemplate, DEFAULT_DERIVE_FROM_TEMPLATE)

RenderedGiven == renderTemplate(TemplateGiven, parseSemver(given.deriveFrom))

\* the prefix of the version given: its leading 'v' or 'V', if any
PrefixGiven ==
  IF Head(Trim(given.deriveFrom)) \in {"v", "V"}
    THEN <<Head(Trim(given.deriveFrom))>> ELSE EMPTY

\* the pieces of the rendered template, trimmed
RenderedEntries ==
  [i \in 1..Len(Pieces(RenderedGiven)) |-> Trim(Pieces(RenderedGiven)[i])]

\* the rendered entries that are neither empty nor the prefix alone
KeptEntries ==
  LET Meaningful(e) == e # EMPTY /\ e # PrefixGiven
  IN SelectSeq(RenderedEntries, Meaningful)

\* the entries getInputs appended to the explicit ones: those deriveTags
\* returned
DerivedGiven ==
  SubSeq(inputs.tags, Len(inputs.tags) - Len(KeptEntries) + 1, Len(inputs.tags))

\* how many entries the explicit tag list holds: one per comma, plus one
ExplicitCount ==
  IF given.tags = EMPTY THEN 0
  ELSE Cardinality({i \in 1..Len(given.tags) : given.tags[i] = COMMA}) + 1

\* C26: when a version (not a blank) is given and getInputs returns, the tags
\* deriveTags contributed are the pieces of the rendered template between
\* its commas and line breaks, trimmed, in rendered order, without the
\* pieces that are empty or the bare prefix: none of them is empty or the
\* prefix, and every other piece is there.
C26_DerivedTags ==
  InputsReturned /\ Trim(given.deriveFrom) # EMPTY =>
    /\ Len(inputs.tags) = ExplicitCount + Len(KeptEntries)
    /\ DerivedGiven = KeptEntries
    /\ \A i \in 1..Len(DerivedGiven) :
         DerivedGiven[i] # EMPTY /\ DerivedGiven[i] # PrefixGiven
    /\ \A i \in 1..Len(RenderedEntries) :
         RenderedEntries[i] # EMPTY /\ RenderedEntries[i] # PrefixGiven
           => RenderedEntries[i] \in Range(DerivedGiven)

\* '{{prefix}}{{major}},, {{prefix}}' rendered for v3.2.1 is 'v3,, v': an
\* empty piece and the bare prefix are dropped, v3 is derived
C26_Witness ==
  /\ InputsReturned
  /\ given.deriveFrom = <<"v", "3", ".", "2", ".", "1">>
  /\ given.tags = EMPTY
  /\ RenderedEntries = << <<"v", "3">>, EMPTY, <<"v">> >>
  /\ inputs.tags = << <<"v", "3">> >>

\* ------------------------------------------------------------------------
\* C27: a version that cannot be parsed.  getInputs calls deriveTags only
\* when core.getInput returned a non-empty derive_from, so a blank value is
\* an input that was not given; and semver.parse reads a leading 'v' itself,
\* after the one parseSemver has stripped.
\* ------------------------------------------------------------------------
\* s is MAJOR.MINOR.PATCH with an optional -PRERELEASE and +BUILD
IsVersion(s) ==
  /\ Len(s) >= 5
  /\ s[1] \in NumericIds /\ s[2] = "." /\ s[3] \in NumericIds
  /\ s[4] = "." /\ s[5] \in NumericIds
  /\ Len(s) > 5 => s[6] \in {"-", "+"} /\ Len(s) > 6

\* s without one leading 'v' or 'V'
Unprefixed(s) == IF s # EMPTY /\ Head(s) \in {"v", "V"} THEN Tail(s) ELSE s

\* the when_exists given passes validateWhenExists, which getInputs calls
\* before it reads the tags
WhenExistsAccepted ==
  Trim(given.whenExists) \in WHEN_EXISTS_MODES \cup {EMPTY}

GetInputsCalled == phase # "inputs"

\* C27 (as the claim states it): a derive_from that is given and is empty
\* once trimmed, or is no semantic version once a leading 'v' or 'V' is
\* stripped, makes the run fail with 'Invalid semver' before any remote
\* call.
C27_AsStated ==
  /\ GetInputsCalled
  /\ WhenExistsAccepted
  /\ given.deriveFrom # EMPTY
  /\ ~IsVersion(Unprefixed(Trim(given.deriveFrom)))
  => /\ status = "failed"
     /\ failure.kind = "InvalidSemver"
     /\ calls = <<>>

\* the versions parseSemver is applied to directly
VersionForms ==
  /\ parseSemver(EMPTY).error = InvalidSemver(<<"empty string">>)
  /\ parseSemver(<<" ", " ">>).error = InvalidSemver(<<"empty string">>)
  /\ \A s \in { <<"v">>, <<"3", ".", "0">>, <<"v", "1", ".", "2">>,
               <<"V", "V", "1", ".", "2", ".", "3">>,
               <<"v", "V", "1", ".", "2", ".", "3">>,
               <<"1", ".", "2", ".", "3", "-">>, <<"not-a-version">> } :
       parseSemver(s).error = InvalidSemver(s)
  /\ parseSemver(<<" ", "V", "1", ".", "2", ".", "3", " ">>).error = NoError
  /\ parseSemver(<<"v", "v", "1", ".", "2", ".", "3">>).error = NoError
  /\ parseSemver(<<"v", "v", "1", ".", "2", ".", "3">>).prefix = <<"v">>
  /\ parseSemver(<<"v", "v", "1", ".", "2", ".", "3">>).version
       = <<"1", ".", "2", ".", "3">>

\* C27: once getInputs was called with an accepted when_exists, a
\* derive_from that is not blank and is no semantic version once a leading
\* 'v' or 'V' is stripped has made the run fail with "Invalid semver:
\* '<value>'": no Inputs were returned and no remote call was made, whatever
\* the tag list holds.  A blank derive_from is an input that was not given:
\* it never fails with 'Invalid semver', and the Inputs hold the explicit
\* entries only.  parseSemver itself rejects an empty or blank text with
\* 'Invalid semver: empty string', and accepts a version with a second
\* leading 'v'.
C27_InvalidVersionAborts ==
  /\ VersionForms
  /\ GetInputsCalled /\ WhenExistsAccepted /\ Trim(given.deriveFrom) # EMPTY
       /\ ~IsVersion(Unprefixed(Trim(given.deriveFrom)))
     => /\ status = "failed"
        /\ failure = InvalidSemver(Trim(given.deriveFrom))
        /\ phase = "finished"
        /\ inputs = NoInputs
        /\ calls = <<>>
        /\ outputs = NoOutputs
  /\ GetInputsCalled /\ Trim(given.deriveFrom) = EMPTY
     => /\ failure.kind # "InvalidSemver"
        /\ InputsRead => Len(inputs.tags) = ExplicitCount

\* derive_from 'v1.2' next to the tag list 'latest': the run has failed
C27_Witness ==
  /\ given.deriveFrom = <<"v", "1", ".", "2">>
  /\ given.tags = <<"latest">>
  /\ status = "failed"
  /\ failure = InvalidSemver(<<"v", "1", ".", "2">>)
  /\ calls = <<>>

\* ------------------------------------------------------------------------
\* C28: the list getInputs returns, and the run without any tag
\* ------------------------------------------------------------------------
\* getInputs threw: run() reported the failure and returned
GetInputsThrew == phase = "finished" /\ inputs = NoInputs

\* the version given is accepted by parseSemver
VersionAccepted == IsVersion(Unprefixed(Trim(given.deriveFrom)))

\* the entries of the explicit tag list: its pieces, trimmed
ExplicitEntries ==
  IF Trim(given.tags) = EMPTY THEN <<>>
  ELSE [i \in 1..Len(Pieces(Trim(given.tags))) |-> Trim(Pieces(Trim(given.tags))[i])]

\* the derived entries: none without a version
DerivedEntries == IF Trim(given.deriveFrom) = EMPTY THEN <<>> ELSE KeptEntries

\* C28: when getInputs returns or throws, with a when_exists it accepts and
\* a version that is parsed or not given: if the explicit entries and the
\* derived entries are both none, the run has failed with "No tags
\* specified", without Inputs and without a remote call; otherwise Inputs
\* are returned and their tag list is the explicit entries followed by the
\* derived entries.
C28_NoTagsOrExplicitThenDerived ==
  /\ InputsReturned \/ GetInputsThrew
  /\ WhenExistsAccepted
  /\ Trim(given.deriveFrom) = EMPTY \/ VersionAccepted
  => IF ExplicitEntries \o DerivedEntries = <<>>
       THEN /\ GetInputsThrew
            /\ status = "failed"
            /\ failure = NoTagsSpecified
            /\ calls = <<>>
       ELSE /\ InputsReturned
            /\ failure = NoError
            /\ inputs.tags = ExplicitEntries \o DerivedEntries

\* no tag list, and the template '{{prefix}}\n' rendered for v3.2.1: the only
\* derived entry is the bare prefix, and the run fails
C28_Witness ==
  /\ GetInputsThrew
  /\ given.tags = EMPTY
  /\ given.deriveFrom = <<"v", "3", ".", "2", ".", "1">>
  /\ given.deriveFromTemplate = <<"{{prefix}}", NEWLINE>>
  /\ failure = NoTagsSpecified
  /\ calls = <<>>

\* ------------------------------------------------------------------------
\* C29: an operation of no known kind
\* ------------------------------------------------------------------------
OperationKinds == {"create", "update", "skip"}

\* the operations are those planTagOperations returned: one per planning
\* task
PlanProduced ==
  /\ Len(plan) = Cardinality(DOMAIN tagTask)
  /\ \A i \in 1..Len(plan) :
       plan[i].name \in DOMAIN tagTask /\ tagTask[plan[i].name].op = plan[i]

\* executeTagOperation is about to dispatch an operation of no known kind
UnknownNext == Executing /\ plan[next].operation \notin OperationKinds

\* C29: executeTagOperation on an operation that is neither create, update
\* nor skip fails with "Unknown operation type: <kind>": the step it takes
\* issues no provider call and changes nothing on the remote, and nothing is
\* reported.  Every operation a planning task settles with, and every
\* operation of a plan planTagOperations returned, is a create, an update
\* or a skip, so that a run executing such a plan never fails this way.
C29_UnknownOperationFails ==
  /\ [](\A n \in DOMAIN tagTask :
          "op" \in DOMAIN tagTask[n] => tagTask[n].op.operation \in OperationKinds)
  /\ [](PlanProduced =>
          /\ \A i \in 1..Len(plan) : plan[i].operation \in OperationKinds
          /\ failure.kind # "UnknownOperation")
  /\ [][UnknownNext =>
          /\ status' = "failed"
          /\ failure' = UnknownOperation(plan[next].operation)
          /\ calls' = calls
          /\ remote' = remote
          /\ tagObjects' = tagObjects
          /\ <<created, updated, skipped, outputs>>'
               = <<created, updated, skipped, outputs>>]_vars

\* a tag was created, then the operation of kind 'invalid' failed: the one
\* call is the createRef of the first operation
C29_Witness ==
  /\ status = "failed"
  /\ failure = UnknownOperation("invalid")
  /\ next = 2
  /\ plan[1].operation = "create"
  /\ plan[2].operation = "invalid"
  /\ Len(calls) = 1
  /\ calls[1].api = "createRef"
  /\ outputs = NoOutputs

\* ------------------------------------------------------------------------
\* C30: entries with more than two parts.  The loop cited by the claim is
\* that of an earlier revision (src/src/tags.ts), which had no annotations
\* and threw on a third part; the loop of planTagOperations reads the third
\* and further parts as the annotation.
\* ------------------------------------------------------------------------
\* the entry splits on ':' into more than two parts
ManyParts(s) == Cardinality(Colons(s)) >= 2

\* the entry up to its second colon: 'name:ref'
FirstTwoParts(s) ==
  IF ManyParts(s)
    THEN SubSeq(s, 1, (CHOOSE i \in Colons(s) :
                         Cardinality({j \in Colons(s) : j < i}) = 1) - 1)
    ELSE s

ManyPartEntries == {i \in 1..Len(inputs.tags) : ManyParts(inputs.tags[i])}

\* planTagOperations was called and its parsing loop is over
ParsingOver == InputsRead /\ phase # "start"

ManyPartForms ==
  \A t \in { <<"stable", ":", "main", ":", "latest">>,
            <<"stable", ":", ":", "latest">>,
            <<"stable", ":", "main", ":">>,
            <<"stable", ":", "main", ":", "a", ":", "b", ":", "c">>,
            <<" ", "stable", " ", ":", " ", "main", " ", ":", ":", ":">> } :
    \A d \in DefaultRefs :
      /\ ManyParts(t)
      /\ ParseTags(<<t>>, d).error = ParseTags(<<FirstTwoParts(t)>>, d).error
      /\ ParseTags(<<t>>, d).tagRefs = ParseTags(<<FirstTwoParts(t)>>, d).tagRefs
      /\ ParseTags(<<t>>, d).uniqueRefs = ParseTags(<<FirstTwoParts(t)>>, d).uniqueRefs
      /\ ParseTags(<<t>>, d).error \in {NoError, MissingRef}
      /\ ParseTags(<<t>>, <<"main">>).tagRefs
           = ObjSet(EmptyObj, <<"stable">>, <<"main">>)

CallsTo(api) == {i \in 1..Len(calls) : calls[i].api = api}

\* every promise of the first wave is fulfilled: refSHAs holds every ref
AllResolved ==
  /\ DOMAIN refTask = Range(uniqueRefs)
  /\ \A r \in DOMAIN refTask : refTask[r] = "fulfilled" /\ HasOwn(refSHAs, r)

\* every promise of the second wave is fulfilled
AllPlanned ==
  /\ DOMAIN tagTask = Range(ObjKeys(tagRefs))
  /\ \A n \in DOMAIN tagTask : tagTask[n].st = "fulfilled"

\* ------------------------------------------------------------------------
\* C31: the two waves of planTagOperations
\* ------------------------------------------------------------------------
\* C31: a getRef or getTag call has been issued, or an inspection has
\* started, only when the getCommit of every distinct ref has returned
\* successfully, and every getCommit call precedes every getRef call; a plan
\* has been returned to run() only when the inspection of every desired tag
\* has completed with an operation.
C31_WavesOrdered ==
  /\ (CallsTo("getRef") \cup CallsTo("getTag") # {} \/ tagTask # <<>>) =>
       /\ AllResolved
       /\ \A i \in CallsTo("getCommit") : \A j \in CallsTo("getRef") : i < j
       /\ \A i \in CallsTo("getRef") : \A j \in CallsTo("getTag") : i < j
  /\ (PlanReturned \/ plan # <<>>) =>
       /\ AllResolved
       /\ AllPlanned
       /\ Len(plan) = Cardinality(DOMAIN tagTask)

\* two tags on two refs, one of them annotated on the remote: the plan has
\* been returned after two getCommit, two getRef and one getTag call
C31_Witness ==
  /\ phase = "executing"
  /\ Cardinality(DOMAIN refTask) = 2
  /\ Len(plan) = 2
  /\ Cardinality(CallsTo("getCommit")) = 2
  /\ Cardinality(CallsTo("getRef")) = 2
  /\ Cardinality(CallsTo("getTag")) = 1

\* ------------------------------------------------------------------------
\* C32: the plan does not depend on the order in which the calls return
\* ------------------------------------------------------------------------
\* what fetchTagInfo reports for a tag the remote holds
InfoOf(t) ==
  ExistingInfo(RemoteCommit(t), t.type = "tag",
               IF t.type = "tag" THEN t.sha.message ELSE UNDEF)

\* the operation the inputs and the remote at the start of the run call for
OperationFor(name) ==
  IF remote0[name] = Absent
    THEN CreateOp(name, ObjGet(Parsed.tagRefs, name), DesiredCommit(name),
                  DesiredAnnotation(name))
    ELSE PlanExisting(name, ObjGet(Parsed.tagRefs, name), DesiredCommit(name),
                      DesiredAnnotation(name), InfoOf(remote0[name]),
                      inputs.whenExists)

\* no read call of the run was answered with a provider failure
ReadsAnswered == \A f \in faults : f.api \notin ReadApis

\* C32: when a plan has been returned and every read call was answered from
\* the remote, the plan is the list, in the order of the names of tagRefs,
\* of the operations the inputs and the remote at the start of the run call
\* for: kinds, SHAs, annotations, reasons and order are the same in whatever
\* order the getCommit, getRef and getTag calls returned.
C32_PlanIndependentOfCompletionOrder ==
  PlanReturned /\ ReadsAnswered =>
    plan = [i \in 1..Len(ObjKeys(Parsed.tagRefs)) |->
              OperationFor(ObjKeys(Parsed.tagRefs)[i])]

\* two annotated tags, the inspection of the second one returned first (its
\* getTag call was issued first): the plan lists the first one first
C32_Witness ==
  /\ PlanReturned
  /\ ReadsAnswered
  /\ Len(plan) = 2
  /\ plan[1].name = <<"v1">>
  /\ plan[2].name = <<"v2">>
  /\ plan[1].operation # plan[2].operation
  /\ \E i, j \in CallsTo("getTag") :
       /\ i < j
       /\ calls[i] = GetTagCall(remote0[<<"v2">>].sha)
       /\ calls[j] = GetTagCall(remote0[<<"v1">>].sha)

\* ------------------------------------------------------------------------
\* C33: refSHAs, the map of the resolved refs
\* ------------------------------------------------------------------------
\* the step writes refSHAs
WritesRefSHAs == refSHAs' # refSHAs

\* the step is the write of the task of ref r: the first write of that key
WriteOf(r) ==
  /\ refTask[r] = "pending"
  /\ ~HasOwn(refSHAs, r)
  /\ refSHAs' = [keys |-> Append(refSHAs.keys, r),
                 vals |-> Append(refSHAs.vals, CommitOf(r))]
  /\ refTask' = [refTask EXCEPT ![r] = "fulfilled"]

\* C33: refSHAs is written once per distinct ref, by the task of that ref,
\* and read only when complete.  There is one task and one getCommit call
\* per distinct ref; a step that writes refSHAs is the first write of the
\* key of one pending task, which is then fulfilled, so that no key is
\* written twice or by two tasks; and once the inspections, which read
\* refSHAs, have started, every key is written and refSHAs does not change
\* any more.
C33_RefSHAsWrittenOncePerRef ==
  /\ [](/\ Cardinality(Range(uniqueRefs)) = Len(uniqueRefs)
        /\ phase # "start" => /\ DOMAIN refTask = Range(uniqueRefs)
                              /\ Cardinality(CallsTo("getCommit")) = Len(uniqueRefs)
        /\ Cardinality(Range(refSHAs.keys)) = Len(refSHAs.keys)
        /\ \A r \in Range(refSHAs.keys) : r \in DOMAIN refTask /\ refTask[r] = "fulfilled"
        /\ tagTask # <<>> => AllResolved)
  /\ [][WritesRefSHAs => \E r \in DOMAIN refTask : WriteOf(r)]_vars
  /\ [][tagTask # <<>> => ~WritesRefSHAs]_vars

\* three entries on two refs: both refs are written, and the inspections of
\* the tags are running
C33_Witness ==
  /\ phase = "inspecting"
  /\ refSHAs.keys = << <<"dev">>, <<"main">> >>
  /\ uniqueRefs = << <<"main">>, <<"dev">> >>
  /\ \E n \in DOMAIN tagTask : tagTask[n].st = "fulfilled"
  /\ \E n \in DOMAIN tagTask : tagTask[n].st = "getRef"

\* ------------------------------------------------------------------------
\* C34  When several tasks of one wave fail (two tags that exist already
\* under when_exists 'fail', or an existing tag and a provider error on
\* another one), the run reports one failure, that of the task that failed
\* first: the step that rejects a task while the run is running reports the
\* error of that task, a run that has failed keeps the failure it reported,
\* and a run that failed while planning has issued no mutating call.
\* ------------------------------------------------------------------------
\* the step rejects the task of ref
RefRejected(ref) == refTask[ref] # "rejected" /\ refTask'[ref] = "rejected"

\* the step rejects the task of tag name n
TagRejected(n) == tagTask[n].st # "rejected" /\ tagTask'[n].st = "rejected"

\* the tasks that have failed so far
RejectedTasks ==
  {r \in DOMAIN refTask : refTask[r] = "rejected"}
    \cup {n \in DOMAIN tagTask : tagTask[n].st = "rejected"}

AsDesired(n, t) ==
  /\ t # Absent
  /\ RemoteCommit(t) = DesiredCommit(n)
  /\ IF Truthy(DesiredAnnotation(n))
       THEN t.type = "tag" /\ t.sha.message = DesiredAnnotation(n)
       ELSE t.type = "commit"

C35_UpdateConverges ==
  (/\ phase = "finished"
   /\ status = "succeeded"
   /\ ~inputs.dryRun
   /\ inputs.whenExists = "update")
    => \A n \in DesiredNames : AsDesired(n, RemoteGet(n))

\* such a run that moved a tag which stood for another commit and stripped
\* or replaced an annotation
C35_Witness ==
  /\ phase = "finished"
  /\ status = "succeeded"
  /\ ~inputs.dryRun
  /\ inputs.whenExists = "update"
  /\ updated # <<>>
  /\ \E n \in DesiredNames :
       /\ n \in DOMAIN remote0
       /\ remote0[n].type = "tag"
       /\ ~AsDesired(n, remote0[n])
       /\ RemoteCommit(remote0[n]) = DesiredCommit(n)
  /\ \E n \in DesiredNames :
       /\ n \in DOMAIN remote0
       /\ remote0[n] # Absent
       /\ RemoteCommit(remote0[n]) # DesiredCommit(n)

\* ------------------------------------------------------------------------
\* C36  A run leaves every remote tag that is not among its desired names as
\* it was and issues no ref call for it; under when_exists 'skip' it leaves
\* every tag that existed before the run as it was; and every createRef or
\* updateRef call carries the name of a create, respectively an update, of
\* the plan of the run.
\* ------------------------------------------------------------------------
\* the ref calls of the given api issued for tag name n
RefCallsOf(api, n) == {i \in RefCallsFor(n) : calls[i].api = api}

\* the plan holds an operation of the given kind for tag name n
Planned(kind, n) ==
  \E i \in 1..Len(plan) : plan[i].name = n /\ plan[i].operation = kind

C36_Frame ==
  /\ \A n \in TagNames \ DesiredNames :
       RemoteGet(n) = remote0[n] /\ RefCallsFor(n) = {}
  /\ inputs.whenExists = "skip"
       => \A n \in TagNames : remote0[n] # Absent => RemoteGet(n) = remote0[n]
  /\ \A n \in TagNames :
       /\ RefCallsOf("createRef", n) # {} => Planned("create", n)
       /\ RefCallsOf("updateRef", n) # {} => Planned("update", n)
  /\ Cardinality(CallsOf(RefMutatingApis))
       = Cardinality(UNION {RefCallsFor(n) : n \in TagNames})

\* a run under 'skip' that created one tag beside an existing one it was
\* asked for, and a run that moved one tag beside an existing one it was not
\* asked for
C36_Witness ==
  /\ phase = "finished"
  /\ status = "succeeded"
  /\ \E n, m \in TagNames :
       /\ n # m
       /\ remote0[m] # Absent
       /\ RemoteGet(n) # remote0[n]
       /\ \/ inputs.whenExists = "skip" /\ m \in DesiredNames /\ created # <<>>
          \/ m \notin DesiredNames /\ updated # <<>>

\* ------------------------------------------------------------------------
\* C37  Every update the planner plans carries at least one reason: an
\* update is planned only when the commit or the annotation differs, and
\* getUpdateReasons names a reason in each of these cases.
\* ------------------------------------------------------------------------
\* the operations planned so far, by the tasks and in the plan
PlannedOperations ==
  {tagTask[n].op : n \in {m \in DOMAIN tagTask : tagTask[m].st = "fulfilled"}}
    \cup Range(plan)

C37_UpdateHasReasons ==
  \A op \in PlannedOperations :
    op.operation = "update"
      => /\ op.reasons # <<>>
         /\ op.existingSHA # op.sha => op.reasons[1].reason = "commit SHA"

\* an update for the annotation alone: the commit matches
C37_Witness ==
  \E op \in Range(plan) :
    /\ op.operation = "update"
    /\ op.existingSHA = op.sha
    /\ op.reasons = <<RemovingAnnotation>>

\* ------------------------------------------------------------------------
\* C38  Planning does not depend on dry_run.  The read calls, the plan and
\* the failure that aborts planning are what the tag list, the default ref,
\* the default annotation, when_exists, the remote at the start of the run
\* and the answers of the provider determine, and dry_run is not among
\* these: two runs that differ in dry_run alone issue the same read calls
\* and return the same plan or abort alike.  The dry run differs in that it
\* issues no mutating call.
\* ------------------------------------------------------------------------
\* the provider answered the getTag call for tag name n with 404
ReportedMissing(n) ==
  \E f \in faults : f.api = "getTag" /\ f.key = n /\ f.answer = 404

\* the operation planned for tag name n, given the answers of the provider
OperationGiven(n) ==
  IF ReportedMissing(n)
    THEN CreateOp(n, ObjGet(Parsed.tagRefs, n), DesiredCommit(n),
                  DesiredAnnotation(n))
    ELSE OperationFor(n)

\* the failures planning can abort with, given the answers of the provider
FailuresGiven ==
  ({Parsed.error} \ {NoError})
    \cup {RefResolutionFailed(f.key) : f \in {g \in faults : g.api = "getCommit"}}
    \cup {TagCheckFailed(f.key) :
            f \in {g \in faults : g.api \in {"getRef", "getTag"} /\ g.answer # 404}}
    \cup {TagAlreadyExists(n) :
            n \in {m \in DesiredNames : /\ inputs.whenExists = "fail"
                                        /\ remote0[m] # Absent
                                        /\ ~ReportedMissing(m)}}

\* the read calls issued so far, in the order of their issue
ReadCalls == SelectSeq(calls, LAMBDA c : c.api \in ReadApis)

\* the read calls of the two waves, and those that follow an annotated tag
WaveCalls ==
  [i \in 1..Len(Parsed.uniqueRefs) |-> GetCommitCall(Parsed.uniqueRefs[i])]
    \o [i \in 1..Len(ObjKeys(Parsed.tagRefs)) |->
          GetRefCall(ObjKeys(Parsed.tagRefs)[i])]

IsPrefix(s, t) == Len(s) <= Len(t) /\ s = SubSeq(t, 1, Len(s))

C38_PlanningIgnoresDryRun ==
  /\ PlanReturned
       => /\ plan = [i \in 1..Len(ObjKeys(Parsed.tagRefs)) |->
                       OperationGiven(ObjKeys(Parsed.tagRefs)[i])]
          /\ FailuresGiven = {}
          /\ Len(ReadCalls) = Len(WaveCalls)
               + Cardinality({n \in DesiredNames : remote0[n].type = "tag"})
  /\ (status = "failed" /\ failure.kind \in PlanningFailures)
       => failure \in FailuresGiven
  /\ \/ IsPrefix(ReadCalls, WaveCalls)
     \/ /\ IsPrefix(WaveCalls, ReadCalls)
        /\ \A i \in (Len(WaveCalls) + 1)..Len(ReadCalls) :
             \E n \in DesiredNames :
               remote0[n].type = "tag" /\ ReadCalls[i] = GetTagCall(remote0[n].sha)
  /\ inputs.dryRun => NoMutatingCall

\* a dry run that returned a plan with an update in it after a getTag call,
\* and is over
C38_Witness ==
  /\ inputs.dryRun
  /\ phase = "finished"
  /\ status = "succeeded"
  /\ \E i \in 1..Len(plan) : plan[i].operation = "update"
  /\ \E i \in 1..Len(plan) : plan[i].operation = "create"
  /\ CallsTo("getTag") # {}
  /\ NoMutatingCall

\* ------------------------------------------------------------------------
\* C39  As stated: a create is planned for a tag only if its reference is
\* absent on the remote, whatever the provider answers to the getTag call
\* that follows the getRef call of an annotated tag, and under when_exists
\* 'fail' a plan is returned only if no desired tag exists.
\* (The catch block around fetchTagInfo takes a 404 of getTag for a 404 of
\* getRef: the annotated tag is planned as a create, under 'fail' too.)
\* ------------------------------------------------------------------------
C39_AsStated ==
  /\ \A op \in PlannedOperations :
       op.operation = "create" => remote0[op.name] = Absent
  /\ (PlanReturned /\ inputs.whenExists = "fail") => PreExisting = {}

\* under 'fail', a plan was returned that creates a tag whose reference
\* exists: getTag answered 404 for its tag object
C39_CreatePlannedForExistingTag ==
  /\ PlanReturned
  /\ inputs.whenExists = "fail"
  /\ \E i \in 1..Len(plan) :
       /\ plan[i].operation = "create"
       /\ remote0[plan[i].name].type = "tag"
       /\ ReportedMissing(plan[i].name)

\* ------------------------------------------------------------------------
\* C40  As stated: the run fails with the duplicate-tag conflict only when
\* the name of an entry occurred in an earlier entry of the list with a
\* different effective ref, whatever the name is.
\* (tagRefs is a plain object: for a name that Object.prototype defines,
\* such as 'constructor' or 'toString', tagRefs[tagName] is the inherited
\* member, which is truthy and is not the ref, and the first entry of that
\* name is reported as a conflict.)
\* ------------------------------------------------------------------------
\* the ref an entry declares, and the one in effect for it
OwnRefOf(s) == Trim(OrElse(At(Split(s), 2), EMPTY))

EffectiveRefOf(s) == OrElse(OwnRefOf(s), inputs.defaultRef)

\* entries i < j name the same tag with different effective refs
Conflict(i, j) ==
  /\ i < j
  /\ NameOf(inputs.tags[i]) # EMPTY
  /\ NameOf(inputs.tags[i]) = NameOf(inputs.tags[j])
  /\ EffectiveRefOf(inputs.tags[i]) # EffectiveRefOf(inputs.tags[j])

C40_AsStated ==
  (InputsRead /\ failure.kind = "DuplicateTag")
    => \E i, j \in 1..Len(inputs.tags) : Conflict(i, j)

\* the list 'constructor' with the ref 'main': planning fails with a
\* conflict between the inherited member and 'main', before any call
C40_ConflictOnSingleEntry ==
  /\ InputsRead
  /\ inputs.tags = << <<"constructor">> >>
  /\ failure = DuplicateTag(<<"constructor">>, PROTOVAL, inputs.defaultRef)
  /\ status = "failed"
  /\ calls = <<>>

====
